---- MODULE Spec2Model ----
(***************************************************************************)
(* Model of the hybrid ECS: the World (src/src/ecs_core.rs), the Command   *)
(* Buffer (src/src/command_buffer.rs) and the Entity handle / Scene with   *)
(* its runtime borrow tracker (src/src/game_object.rs).                    *)
(*                                                                         *)
(* A HashMap is a TLA+ function whose DOMAIN is its key set; a Vec is a    *)
(* sequence; an Option is <<>> (None) or <<v>> (Some(v)).                  *)
(***************************************************************************)
EXTENDS Integers, Sequences, FiniteSets, TLC

\* ------------------------------------------------------------------ bounds
\* ids 0 .. MaxEntities-1 are the ids a handle can carry (Scene::get_entity
\* takes any id) and the cap on next_entity_id
MaxEntities == 2
\* cap on the number of queued commands
MaxCommands == 2
\* cap on the number of live raw references (ComponentRefer / ComponentReferMut)
MaxRefs == 2
\* cap on the number of handles with a tracker of their own
MaxHandles == 2
\* most systems registered with one SystemExecutor
MaxSystems == 3
\* largest component value a system may produce
MaxValue == 4
\* threads that share one Scene
MaxThreads == 2
\* most commands pushed on the Command Buffer in one run of the threads
MaxJournal == 3

EntityIds == 0 .. (MaxEntities - 1)
\* component types (TypeId::of::<T>()) and component values
Types == {"A", "B"}
Values == {1, 2}

None == <<>>
Some(v) == <<v>>

EmptyMap == [x \in {} |-> 0]

VARIABLES
    next_entity_id,  \* World.next_entity_id
    entities,        \* World.entities : Vec<Entity>
    components,      \* World.components : HashMap<TypeId, ComponentStorage>
    commands,        \* CommandBuffer.commands : Vec<Command>
    handles,         \* Entity handles that own a BorrowTracker: [id, read_count, write_count]
    refs,            \* live raw references: [handle, is_write, type]
    world_lock,      \* RwLock<World>: [readers, writer]
    status,          \* "running", "in Entity::new" (between its two statements),
                     \* "panicked" (a panic! was raised), "deadlocked" (blocked forever)
    systems,         \* SystemExecutor.systems : Vec<Box<dyn System>>
    scripts,         \* World.script_components : HashMap<TypeId, TypedScriptStorage>
    threads,         \* per thread: the call it is in and the lock guards it holds
    journal,         \* commands pushed on the buffer and commands executed, in order
    last             \* the last operation performed and its result

world == <<next_entity_id, entities, components>>
vars == <<next_entity_id, entities, components, commands, handles, refs, world_lock, status,
          systems, scripts, threads, journal, last>>

\* ------------------------------------------------------ ComponentStorage
\* a storage is HashMap<Entity, T>

\* ComponentStorage::new
StorageNew == EmptyMap

\* a storage whose insert keeps an existing value
StorageInsertKeepFirst(map, entity, component) ==
    IF entity \in DOMAIN map THEN map
    ELSE [e \in (DOMAIN map) \cup {entity} |-> IF e = entity THEN component ELSE map[e]]

\* ComponentStorage::insert: HashMap::insert replaces the value of an existing key
StorageInsert(map, entity, component) ==
    [e \in (DOMAIN map) \cup {entity} |-> IF e = entity THEN component ELSE map[e]]

\* ComponentStorage::get
StorageGet(map, entity) ==
    IF entity \in DOMAIN map THEN Some(map[entity]) ELSE None

\* a remove that empties the whole storage
StorageRemoveAll(map, entity) == EmptyMap

\* ComponentStorage::remove: the map without the entity's key
StorageRemove(map, entity) ==
    [e \in (DOMAIN map) \ {entity} |-> map[e]]

\* ComponentStorage::entities: the keys, in the HashMap's unspecified order
StorageEntities(map) == DOMAIN map

\* ----------------------------------------------------------------- World
\* the World as a record, so that closures and the command buffer can thread it
WorldRec(n, es, cs) == [next_entity_id |-> n, entities |-> es, components |-> cs]
TheWorld == WorldRec(next_entity_id, entities, components)

\* World::new
WorldNew == WorldRec(0, <<>>, EmptyMap)

\* a create_entity that hands out the counter without advancing it
create_entity_no_bump(w) ==
    WorldRec(w.next_entity_id, Append(w.entities, w.next_entity_id), w.components)

\* World::create_entity
create_entity(w) ==
    [w EXCEPT !.next_entity_id = w.next_entity_id + 1,
              !.entities = Append(w.entities, w.next_entity_id)]

\* World::create_entity_id, called by Entity::new: a fresh id (the counter, which
\* it advances); the id is not registered yet
create_entity_id(w) ==
    [world |-> [w EXCEPT !.next_entity_id = w.next_entity_id + 1], id |-> w.next_entity_id]

\* World::register_entity, called by Entity::new: the id becomes live
register_entity(w, id) == [w EXCEPT !.entities = Append(w.entities, id)]

\* Entity::new, first statement: let id = world.write().create_entity_id()
Entity_new_first(w) == create_entity_id(w)

\* an Entity::new that never registers the id it allocated
Entity_new_second_skips(w, id) == w

\* Entity::new, second statement: world.write().register_entity(id)
Entity_new_second(w, id) == register_entity(w, id)

\* an add_component that skips an entity that is not in the registry
add_component_live_only(w, entity, type, component) ==
    LET storage == IF type \in DOMAIN w.components THEN w.components[type] ELSE StorageNew
    IN IF \E i \in 1 .. Len(w.entities) : w.entities[i] = entity
       THEN [w EXCEPT !.components =
                [t \in (DOMAIN w.components) \cup {type} |->
                    IF t = type THEN StorageInsert(storage, entity, component)
                    ELSE w.components[t]]]
       ELSE w

\* World::add_component: entry(type_id).or_insert_with(new).insert(entity, component)
add_component(w, entity, type, component) ==
    LET storage == IF type \in DOMAIN w.components THEN w.components[type] ELSE StorageNew
    IN [w EXCEPT !.components =
            [t \in (DOMAIN w.components) \cup {type} |->
                IF t = type THEN StorageInsert(storage, entity, component)
                ELSE w.components[t]]]

\* World::get_component (get_component_mut finds the same component)
get_component(w, entity, type) ==
    IF type \in DOMAIN w.components THEN StorageGet(w.components[type], entity) ELSE None

\* a get_component_mut that goes through entry(type_id).or_insert_with(new)
get_component_mut_or_insert(w, entity, type) ==
    [world |-> [w EXCEPT !.components =
                   [t \in (DOMAIN w.components) \cup {type} |->
                       IF t \in DOMAIN w.components THEN w.components[t] ELSE StorageNew]],
     result |-> get_component(w, entity, type)]

\* World::get_component_mut: components.get_mut(&type_id).and_then(storage.get_mut);
\* yields the World it leaves and the component found
get_component_mut(w, entity, type) ==
    [world |-> w, result |-> get_component(w, entity, type)]

\* the instances of type the Storage holds for entity, in insertion order: a
\* HashMap<Entity, T> holds one value per key
Instances(w, entity, type) ==
    IF get_component(w, entity, type) = None THEN <<>>
    ELSE <<get_component(w, entity, type)[1]>>

\* a remove_component that drops the type's whole Storage content
remove_component_all(w, entity, type) ==
    IF type \in DOMAIN w.components
    THEN [w EXCEPT !.components[type] = StorageRemoveAll(w.components[type], entity)]
    ELSE w

\* a remove_component that goes through entry(type_id).or_insert_with(new)
remove_component_or_insert(w, entity, type) ==
    LET storage == IF type \in DOMAIN w.components THEN w.components[type] ELSE StorageNew
    IN [w EXCEPT !.components =
            [t \in (DOMAIN w.components) \cup {type} |->
                IF t = type THEN StorageRemove(storage, entity) ELSE w.components[t]]]

\* World::remove_component
remove_component(w, entity, type) ==
    IF type \in DOMAIN w.components
    THEN [w EXCEPT !.components[type] = StorageRemove(w.components[type], entity)]
    ELSE w

\* Vec::retain(|&e| e != entity)
RECURSIVE Retain(_, _)
Retain(s, entity) ==
    IF s = <<>> THEN <<>>
    ELSE IF Head(s) = entity THEN Retain(Tail(s), entity)
         ELSE <<Head(s)>> \o Retain(Tail(s), entity)

\* World::delete_entity: it only drops the id from the registry and removes no
\* component
delete_entity(w, entity) ==
    [w EXCEPT !.entities = Retain(w.entities, entity)]

\* World::destroy_entity, called by Entity::destroy and by the DestroyEntity arm
\* of CommandBuffer::execute: the entity leaves every Storage and the registry
destroy_entity(w, entity) ==
    [w EXCEPT !.entities = Retain(w.entities, entity),
              !.components = [t \in DOMAIN w.components |->
                                 StorageRemove(w.components[t], entity)]]

\* Entity::has_component: world.read().get_component::<T>(id).is_some()
has_component(w, entity, type) == get_component(w, entity, type) # None

\* the orders in which a HashMap may iterate over the key set S
Orders(S) ==
    {s \in [1 .. Cardinality(S) -> S] : \A i, j \in 1 .. Cardinality(S) : i # j => s[i] # s[j]}

RECURSIVE SelectMap2(_, _, _, _)
\* the filter / filter_map chain of query2 over the key sequence es
SelectMap2(es, entities2, storage1, storage2) ==
    IF es = <<>> THEN <<>>
    ELSE LET e == Head(es)
             rest == SelectMap2(Tail(es), entities2, storage1, storage2)
             c1 == StorageGet(storage1, e)
             c2 == StorageGet(storage2, e)
         IN IF e \in entities2 /\ c1 # None /\ c2 # None
            THEN <<<<e, c1[1], c2[1]>>>> \o rest
            ELSE rest

RECURSIVE SelectMap1(_, _)
\* the filter_map of query over the key sequence es
SelectMap1(es, storage) ==
    IF es = <<>> THEN <<>>
    ELSE LET c == StorageGet(storage, Head(es))
             rest == SelectMap1(Tail(es), storage)
         IN IF c # None THEN <<<<Head(es), c[1]>>>> \o rest ELSE rest

\* World::query; order is the iteration order of the storage's keys
query(w, t, order) ==
    IF t \in DOMAIN w.components THEN SelectMap1(order, w.components[t]) ELSE <<>>

\* a query2 that does not require the second Storage to exist
query2_ignores_missing(w, t1, t2, order) ==
    IF t1 \in DOMAIN w.components
    THEN [i \in 1 .. Len(order) |-> <<order[i], w.components[t1][order[i]], 0>>]
    ELSE <<>>

\* a query2 that forgets the membership test and the second lookup
query2_first_only(w, t1, t2, order) ==
    IF t1 \in DOMAIN w.components /\ t2 \in DOMAIN w.components
    THEN [i \in 1 .. Len(order) |-> <<order[i], w.components[t1][order[i]], 0>>]
    ELSE <<>>

\* World::query2; order is the iteration order of storage1's keys
query2(w, t1, t2, order) ==
    IF t1 \in DOMAIN w.components /\ t2 \in DOMAIN w.components
    THEN SelectMap2(order, StorageEntities(w.components[t2]),
                    w.components[t1], w.components[t2])
    ELSE <<>>

\* the key orders query2 may see for type t1
Query2Orders(w, t1) ==
    IF t1 \in DOMAIN w.components THEN Orders(StorageEntities(w.components[t1])) ELSE {<<>>}

\* --------------------------------------------------------- CommandBuffer
\* Command: CreateEntity(setup), AddComponent(entity, closure),
\* RemoveComponent(entity, closure), DestroyEntity(entity).  A closure is
\* modelled by the data it captured: the component type and value.
\* a captured component is Some(v); a command that captures none holds None
NoEntity == 0 - 1
NoType == "-"

\* setup closures of CommandBuffer::create_entity: |world| world.create_entity(), or
\* |world| { let e = world.create_entity(); world.add_component(e, v); e }
CmdCreateEntity(type, value) ==
    [kind |-> "CreateEntity", entity |-> NoEntity, type |-> type,
     value |-> IF type = NoType THEN None ELSE Some(value)]
\* CommandBuffer::add_component builds AddComponent(entity, move |world, entity| world.add_component(entity, component))
CmdAddComponent(entity, type, value) ==
    [kind |-> "AddComponent", entity |-> entity, type |-> type, value |-> Some(value)]
\* CommandBuffer::remove_component builds RemoveComponent(entity, |world, entity| world.remove_component::<T>(entity))
CmdRemoveComponent(entity, type) ==
    [kind |-> "RemoveComponent", entity |-> entity, type |-> type, value |-> None]
\* CommandBuffer::destroy_entity builds DestroyEntity(entity)
CmdDestroyEntity(entity) ==
    [kind |-> "DestroyEntity", entity |-> entity, type |-> NoType, value |-> None]

\* the setup closure that captured scene.world() and builds the handle it has to
\* return with Entity::new(world, ...), which takes world.write()
ReentrantSetup == "Entity::new"

\* the first command of cmds whose closure takes the World lock itself (0: none)
FirstReentrant(cmds) ==
    LET S == {i \in 1 .. Len(cmds) : cmds[i].kind = "CreateEntity" /\ cmds[i].type = ReentrantSetup}
    IN IF S = {} THEN 0 ELSE CHOOSE i \in S : \A j \in S : i <= j

\* the body of a setup closure
run_setup(w, c) ==
    LET w1 == create_entity(w)
    IN IF c.type = NoType THEN w1 ELSE add_component(w1, w.next_entity_id, c.type, c.value[1])

\* a push that puts the command in front of the queued ones
push_front(cmds, c) == <<c>> \o cmds

\* self.commands.push(Command::...) of the CommandBuffer methods
push(cmds, c) == Append(cmds, c)

\* a match whose DestroyEntity arm does nothing
apply_command_no_destroy(w, c) ==
    CASE c.kind = "CreateEntity" -> run_setup(w, c)
      [] c.kind = "AddComponent" -> add_component(w, c.entity, c.type, c.value[1])
      [] c.kind = "RemoveComponent" -> remove_component(w, c.entity, c.type)
      [] c.kind = "DestroyEntity" -> w

\* a match whose RemoveComponent arm does not call its closure
apply_command_no_remove(w, c) ==
    CASE c.kind = "CreateEntity" -> run_setup(w, c)
      [] c.kind = "AddComponent" -> add_component(w, c.entity, c.type, c.value[1])
      [] c.kind = "RemoveComponent" -> w
      [] c.kind = "DestroyEntity" -> destroy_entity(w, c.entity)

\* one arm of the match in CommandBuffer::execute
apply_command(w, c) ==
    CASE c.kind = "CreateEntity" -> run_setup(w, c)
      [] c.kind = "AddComponent" -> add_component(w, c.entity, c.type, c.value[1])
      [] c.kind = "RemoveComponent" -> remove_component(w, c.entity, c.type)
      [] c.kind = "DestroyEntity" -> destroy_entity(w, c.entity)

RECURSIVE DrainFrom(_, _)
\* the body of the drain loop: the commands, front to back, each through its arm
DrainFrom(w, cmds) ==
    IF cmds = <<>> THEN w
    ELSE DrainFrom(apply_command(w, Head(cmds)), Tail(cmds))

RECURSIVE DrainFromBack(_, _)
DrainFromBack(w, cmds) ==
    IF cmds = <<>> THEN w
    ELSE DrainFromBack(apply_command(w, cmds[Len(cmds)]), SubSeq(cmds, 1, Len(cmds) - 1))

\* an execute that pops the commands from the back
execute_lifo(w, cmds) == [world |-> DrainFromBack(w, cmds), commands |-> <<>>]

\* an execute that iterates the commands without draining them
execute_keeps_buffer(w, cmds) == [world |-> DrainFrom(w, cmds), commands |-> cmds]

\* CommandBuffer::execute: for command in self.commands.drain(..) { match command ... };
\* yields the World and the drained buffer
execute(w, cmds) == [world |-> DrainFrom(w, cmds), commands |-> <<>>]

\* CommandBuffer::is_empty
is_empty == commands = <<>>

\* number of queued CreateEntity commands
RECURSIVE CountCreates(_)
CountCreates(cmds) ==
    IF cmds = <<>> THEN 0
    ELSE (IF Head(cmds).kind = "CreateEntity" THEN 1 ELSE 0) + CountCreates(Tail(cmds))

\* ------------------------------------------------- BorrowTracker, RwLock
\* BorrowTracker::new
TrackerNew(id) == [id |-> id, read_count |-> 0, write_count |-> 0]

\* parking_lot RwLock<World>, one thread: write() is granted when nobody holds
\* the lock and read() when no writer holds it or waits for it; otherwise the
\* call never returns
\* pending: a write() of another thread has announced itself while readers hold
\* the lock and waits for them to leave; until it is served no read() and no
\* other write() is granted
LockNew == [readers |-> 0, writer |-> FALSE, pending |-> FALSE]
CanWrite == world_lock.readers = 0 /\ ~world_lock.writer /\ ~world_lock.pending
CanRead == ~world_lock.writer /\ ~world_lock.pending

\* a guard whose drop leaves the lock taken
lock_release_keeps(l, is_write) == l

\* RwLockReadGuard / RwLockWriteGuard taken and released
lock_read(l) == [l EXCEPT !.readers = l.readers + 1]
lock_write(l) == [l EXCEPT !.writer = TRUE]
lock_release(l, is_write) ==
    IF is_write THEN [l EXCEPT !.writer = FALSE] ELSE [l EXCEPT !.readers = l.readers - 1]

\* a borrow_read that marks the tracker as read instead of counting the readers
borrow_read_sets_flag(t) ==
    IF t.write_count > 0 THEN [ok |-> FALSE, tracker |-> t]
    ELSE [ok |-> TRUE, tracker |-> [t EXCEPT !.read_count = 1]]

\* BorrowTracker::borrow_read: panics when a write borrow is active
borrow_read(t) ==
    IF t.write_count > 0 THEN [ok |-> FALSE, tracker |-> t]
    ELSE [ok |-> TRUE, tracker |-> [t EXCEPT !.read_count = t.read_count + 1]]

\* a borrow_write that does not look at read_count
borrow_write_no_read_check(t) ==
    IF t.write_count > 0 THEN [ok |-> FALSE, tracker |-> t]
    ELSE [ok |-> TRUE, tracker |-> [t EXCEPT !.write_count = 1]]

\* BorrowTracker::borrow_write: panics when any borrow is active
borrow_write(t) ==
    IF t.read_count > 0 THEN [ok |-> FALSE, tracker |-> t]
    ELSE IF t.write_count > 0 THEN [ok |-> FALSE, tracker |-> t]
    ELSE [ok |-> TRUE, tracker |-> [t EXCEPT !.write_count = 1]]

\* a guard whose drop leaves the counters as they are
guard_drop_forgets(t, is_write) == t

\* Drop for BorrowGuard
guard_drop(t, is_write) ==
    IF is_write THEN [t EXCEPT !.write_count = 0]
    ELSE [t EXCEPT !.read_count = t.read_count - 1]

\* --------------------------------------------------------------- threads
ThreadIds == 1 .. MaxThreads

\* a thread outside any call: it holds no lock guard
ThreadIdle ==
    [pc |-> "idle", op |-> NoType, type |-> NoType, value |-> None, hold |-> "none",
     buffer |-> FALSE, seen |-> None, mark |-> 0,
     \* the thread's write() has announced itself and waits for the readers
     parked |-> FALSE]
ThreadsNew == [t \in ThreadIds |-> ThreadIdle]

\* nothing pushed, nothing executed
JournalNew ==
    [enqueued |-> <<>>, applied |-> <<>>,
     \* the thread that pushed each enqueued command
     owner |-> <<>>,
     \* per thread, the commands of its deferred calls in program order
     issued |-> [t \in ThreadIds |-> <<>>],
     \* for each command in the buffer, what the World held for its target when
     \* it was enqueued
     at_enqueue |-> <<>>]

\* -------------------------------------------------------------- records
\* what the last operation was: its name, the handle or entity id it went
\* through, its arguments, its result, the state it started in (before) and,
\* for apply_commands, the commands it drained
Before == [world |-> [next_entity_id |-> next_entity_id, entities |-> entities,
                      components |-> components],
           handles |-> handles, refs |-> refs, world_lock |-> world_lock,
           commands |-> commands, at_enqueue |-> journal.at_enqueue]

Op(op, handle, entity, type, value, result) ==
    [op |-> op, handle |-> handle, entity |-> entity, type |-> type,
     value |-> value, result |-> result, applied |-> <<>>, before |-> Before]

NoHandle == NoEntity

SetWorld(w) ==
    /\ next_entity_id' = w.next_entity_id
    /\ entities' = w.entities
    /\ components' = w.components

\* a handle operation that runs body under self.world.write(): it never returns
\* when the calling thread itself holds the World lock through a raw reference
UnderWorldWrite(w, op) ==
    /\ status = "running"
    /\ UNCHANGED <<systems, scripts, threads>>
    /\ IF CanWrite
       THEN /\ SetWorld(w)
            /\ last' = op
            /\ UNCHANGED status
       ELSE /\ UNCHANGED world
            /\ last' = [op EXCEPT !.result = "blocked"]
            /\ status' = "deadlocked"

\* CommandBuffer push under self.command_buffer.write()
\* what the World holds for the target of command c at the time c is enqueued:
\* for a remove, whether the component is there; for an add, whether the entity
\* is live
AtEnqueue(c) ==
    [present |-> /\ c.kind = "RemoveComponent"
                 /\ has_component(TheWorld, c.entity, c.type),
     live |-> /\ c.kind = "AddComponent"
              /\ \E i \in 1 .. Len(entities) : entities[i] = c.entity]

Enqueue(c, op) ==
    /\ status = "running"
    /\ Len(commands) < MaxCommands
    /\ commands' = push(commands, c)
    /\ journal' = [journal EXCEPT !.at_enqueue = Append(@, AtEnqueue(c))]
    /\ last' = op
    /\ UNCHANGED <<world, handles, refs, world_lock, status, systems, scripts, threads>>

\* ------------------------------------------------ Scene / Entity handle
\* Entity::new, first statement, under a write guard of its own: the id is
\* allocated and not registered yet; the call never gets the guard when the
\* calling thread itself holds the World lock
Entity_new_allocate ==
    LET r == Entity_new_first(TheWorld)
    IN /\ status = "running"
       /\ next_entity_id + CountCreates(commands) < MaxEntities
       /\ IF CanWrite
          THEN /\ SetWorld(r.world)
               /\ last' = Op("create_entity_id", NoHandle, r.id, NoType, None, "ok")
               /\ status' = "in Entity::new"
          ELSE /\ UNCHANGED world
               /\ last' = Op("instantiate", NoHandle, r.id, NoType, None, "blocked")
               /\ status' = "deadlocked"
       /\ UNCHANGED <<commands, handles, refs, world_lock, systems, scripts, threads, journal>>

\* Entity::new, second statement, under a second write guard: the id is
\* registered, and the handle returned has a tracker of its own (kept while
\* there is room for it)
Entity_new_register ==
    /\ status = "in Entity::new"
    /\ SetWorld(Entity_new_second(TheWorld, last.entity))
    /\ handles' = IF Len(handles) < MaxHandles
                  THEN Append(handles, TrackerNew(last.entity))
                  ELSE handles
    /\ status' = "running"
    /\ last' = [Op("instantiate", NoHandle, last.entity, NoType, None, "ok")
                   EXCEPT !.before = last.before]
    /\ UNCHANGED <<commands, refs, world_lock, systems, scripts, threads, journal>>

\* Scene::instantiate -> Entity::new(self.world.clone(), self.command_buffer.clone())
Scene_instantiate == Entity_new_allocate \/ Entity_new_register

\* Scene::get_world: Some(WorldRef(self.world.read())); the caller keeps the
\* read guard for as long as it keeps the WorldRef
Scene_get_world ==
    LET op == Op("get_world", NoHandle, NoEntity, NoType, None, "Some")
    IN /\ status = "running"
       /\ Len(refs) < MaxRefs
       /\ IF CanRead
          THEN /\ refs' = Append(refs, [handle |-> NoHandle, is_write |-> FALSE, type |-> NoType])
               /\ world_lock' = lock_read(world_lock)
               /\ last' = op
               /\ UNCHANGED status
          ELSE /\ last' = [op EXCEPT !.result = "blocked"]
               /\ status' = "deadlocked"
               /\ UNCHANGED <<refs, world_lock>>
       /\ UNCHANGED <<world, commands, handles, systems, scripts, threads, journal>>

\* World::create_entity, called on the World
World_create_entity ==
    /\ status = "running"
    /\ next_entity_id + CountCreates(commands) < MaxEntities
    /\ SetWorld(create_entity(TheWorld))
    /\ last' = Op("create_entity", NoHandle, next_entity_id, NoType, None, "ok")
    /\ UNCHANGED <<commands, handles, refs, world_lock, status, systems, scripts, threads, journal>>

\* World::delete_entity, called on the World: the id leaves the registry and the
\* Storages keep what they hold for it
World_delete_entity(id) ==
    /\ status = "running"
    /\ SetWorld(delete_entity(TheWorld, id))
    /\ last' = Op("delete_entity", NoHandle, id, NoType, None, "ok")
    /\ UNCHANGED <<commands, handles, refs, world_lock, status, systems, scripts, threads, journal>>

\* Scene::get_entity -> Entity::from_id: a handle for any id, with a new tracker
Scene_get_entity(id) ==
    /\ status = "running"
    /\ Len(handles) < MaxHandles
    /\ handles' = Append(handles, TrackerNew(id))
    /\ last' = Op("get_entity", Len(handles) + 1, id, NoType, None, "ok")
    /\ UNCHANGED <<world, commands, refs, world_lock, status, systems, scripts, threads, journal>>

\* Entity::add_component: self.world.write().add_component(self.id, component)
Entity_add_component(id, type, value) ==
    /\ UnderWorldWrite(add_component(TheWorld, id, type, value),
                       Op("add_component", NoHandle, id, type, Some(value), "ok"))
    /\ UNCHANGED <<commands, handles, refs, world_lock, journal>>

\* a deferred add that also executes at once
Entity_add_component_deferred_eager(id, type, value) ==
    /\ status = "running"
    /\ Len(commands) < MaxCommands
    /\ commands' = Append(commands, CmdAddComponent(id, type, value))
    /\ SetWorld(add_component(TheWorld, id, type, value))
    /\ last' = Op("add_component_deferred", NoHandle, id, type, Some(value), "ok")
    /\ UNCHANGED <<handles, refs, world_lock, status, systems, scripts, threads, journal>>

\* Entity::add_component_deferred
Entity_add_component_deferred(id, type, value) ==
    Enqueue(CmdAddComponent(id, type, value),
            Op("add_component_deferred", NoHandle, id, type, Some(value), "ok"))

\* Entity::remove_component
Entity_remove_component(id, type) ==
    /\ UnderWorldWrite(remove_component(TheWorld, id, type),
                       Op("remove_component", NoHandle, id, type, None, "ok"))
    /\ UNCHANGED <<commands, handles, refs, world_lock, journal>>

\* Entity::remove_component_deferred
Entity_remove_component_deferred(id, type) ==
    Enqueue(CmdRemoveComponent(id, type),
            Op("remove_component_deferred", NoHandle, id, type, None, "ok"))

\* Entity::destroy: self.world.write().destroy_entity(self.id)
Entity_destroy(id) ==
    /\ UnderWorldWrite(destroy_entity(TheWorld, id),
                       Op("destroy", NoHandle, id, NoType, None, "ok"))
    /\ UNCHANGED <<commands, handles, refs, world_lock, journal>>

\* a deferred destroy that also executes at once
Entity_destroy_deferred_eager(id) ==
    /\ status = "running"
    /\ Len(commands) < MaxCommands
    /\ commands' = Append(commands, CmdDestroyEntity(id))
    /\ SetWorld(destroy_entity(TheWorld, id))
    /\ last' = Op("destroy_deferred", NoHandle, id, NoType, None, "ok")
    /\ UNCHANGED <<handles, refs, world_lock, status, systems, scripts, threads, journal>>

\* Entity::destroy_deferred
Entity_destroy_deferred(id) ==
    Enqueue(CmdDestroyEntity(id),
            Op("destroy_deferred", NoHandle, id, NoType, None, "ok"))

\* CommandBuffer::create_entity(setup), reached through Scene::command_buffer()
CommandBuffer_create_entity(type, value) ==
    /\ next_entity_id + CountCreates(commands) < MaxEntities
    /\ Enqueue(CmdCreateEntity(type, value),
               Op("create_entity_deferred", NoHandle, NoEntity, type,
                  IF type = NoType THEN None ELSE Some(value), "ok"))

\* Scene::apply_commands: command_buffer.write(), world.write(), execute
Scene_apply_commands ==
    LET k == FirstReentrant(commands)
        done == SubSeq(commands, 1, k - 1)
        op == Op("apply_commands", NoHandle, NoEntity, NoType, None, "ok")
    IN IF k = 0
       THEN /\ UnderWorldWrite(execute(TheWorld, commands).world,
                               [op EXCEPT !.applied = commands])
            /\ commands' = IF CanWrite THEN execute(TheWorld, commands).commands ELSE commands
            /\ journal' = IF CanWrite THEN [journal EXCEPT !.at_enqueue = <<>>] ELSE journal
            /\ UNCHANGED <<handles, refs, world_lock>>
       ELSE \* command k calls world.write() while apply_commands holds the write
            \* guard: the closure never returns, the commands before it have run
            /\ status = "running"
            /\ status' = "deadlocked"
            /\ IF CanWrite
               THEN /\ SetWorld(execute(TheWorld, done).world)
                    /\ last' = [op EXCEPT !.result = "blocked", !.applied = done]
               ELSE /\ UNCHANGED world
                    /\ last' = [op EXCEPT !.result = "blocked"]
            /\ UNCHANGED <<commands, journal, handles, refs, world_lock, systems, scripts, threads>>

\* the sequence s without its element i
RemoveAt(s, i) == SubSeq(s, 1, i - 1) \o SubSeq(s, i + 1, Len(s))

\* a raw acquisition through handle h (a clone of a handle shares its tracker
\* and is the same h): borrow on the tracker, then the World lock, then
\* try_map(...).ok()?, which drops both guards when the component is absent
RawAcquire(h, type, is_write, opname) ==
    LET t == handles[h]
        b == IF is_write THEN borrow_write(t) ELSE borrow_read(t)
        granted == IF is_write THEN CanWrite ELSE CanRead
        op == Op(opname, h, t.id, type, None, "Some")
    IN /\ status = "running"
       /\ Len(refs) < MaxRefs
       /\ UNCHANGED <<world, commands, systems, scripts, threads, journal>>
       /\ IF ~b.ok
          THEN \* panic! in borrow_read / borrow_write
               /\ status' = "panicked"
               /\ last' = [op EXCEPT !.result = "panic"]
               /\ UNCHANGED <<handles, refs, world_lock>>
          ELSE IF ~granted
          THEN \* self.world.read() / write() never returns
               /\ status' = "deadlocked"
               /\ handles' = [handles EXCEPT ![h] = b.tracker]
               /\ last' = [op EXCEPT !.result = "blocked"]
               /\ UNCHANGED <<refs, world_lock>>
          ELSE IF get_component(TheWorld, t.id, type) = None
          THEN \* early return None: the lock guard and the BorrowGuard are dropped
               /\ handles' = [handles EXCEPT ![h] = guard_drop(b.tracker, is_write)]
               /\ last' = [op EXCEPT !.result = "None"]
               /\ UNCHANGED <<refs, world_lock, status>>
          ELSE /\ handles' = [handles EXCEPT ![h] = b.tracker]
               /\ refs' = Append(refs, [handle |-> h, is_write |-> is_write, type |-> type])
               /\ world_lock' = IF is_write THEN lock_write(world_lock) ELSE lock_read(world_lock)
               /\ last' = op
               /\ UNCHANGED status

\* Entity::get_component_raw
Entity_get_component_raw(h, type) == RawAcquire(h, type, FALSE, "get_component_raw")

\* Entity::get_component_raw_mut
Entity_get_component_raw_mut(h, type) == RawAcquire(h, type, TRUE, "get_component_raw_mut")

\* a ComponentRefer / ComponentReferMut goes out of scope: its lock guard and its
\* BorrowGuard are dropped; a WorldRef that goes out of scope drops its lock
\* guard
DropRef(i) ==
    LET r == refs[i]
    IN /\ status = "running"
       /\ refs' = RemoveAt(refs, i)
       /\ handles' = IF r.handle = NoHandle THEN handles
                     ELSE [handles EXCEPT ![r.handle] = guard_drop(handles[r.handle], r.is_write)]
       /\ world_lock' = lock_release(world_lock, r.is_write)
       /\ last' = Op(IF r.handle = NoHandle THEN "drop_world_ref" ELSE "drop", r.handle,
                     IF r.handle = NoHandle THEN NoEntity ELSE handles[r.handle].id,
                     r.type, None, "ok")
       /\ UNCHANGED <<world, commands, status, systems, scripts, threads, journal>>

\* ------------------------------------------- callback-mediated accessors
\* what the closure handed to an accessor does with the Scene while it runs:
\* nothing, a call that takes world.read() (has_component, with_component), or a
\* call that takes world.write() (add_component, with_component_mut)
Callbacks == {"pure", "reads", "writes"}

\* read() / write() on a lock in state l, asked by the thread that may itself
\* hold it
LockCanRead(l) == ~l.writer /\ ~l.pending
\* a write() that is granted while readers hold the lock
LockCanWrite_ignores_readers(l) == ~l.writer
LockCanWrite(l) == l.readers = 0 /\ ~l.writer /\ ~l.pending
\* the announced write() is served once the readers have left
LockHandover(l) == l.readers = 0 /\ ~l.writer /\ l.pending

\* the nested call of callback cb returns when the lock, held as l by the
\* accessor, lets it in
CallbackReturns(cb, l) ==
    CASE cb = "pure" -> TRUE
      [] cb = "reads" -> LockCanRead(l)
      [] cb = "writes" -> LockCanWrite(l)

\* a has_component that keeps its read guard
Entity_has_component_keeps_guard(id, type) ==
    /\ status = "running"
    /\ CanRead
    /\ last' = Op("has_component", NoHandle, id, type, None,
                  IF has_component(TheWorld, id, type) THEN "true" ELSE "false")
    /\ world_lock' = lock_read(world_lock)
    /\ UNCHANGED <<world, commands, handles, refs, status, systems, scripts, threads, journal>>

\* Entity::has_component: self.world.read().get_component::<T>(self.id).is_some()
Entity_has_component(id, type) ==
    /\ status = "running"
    /\ IF CanRead
       THEN /\ last' = Op("has_component", NoHandle, id, type, None,
                          IF has_component(TheWorld, id, type) THEN "true" ELSE "false")
            /\ UNCHANGED status
       ELSE /\ last' = Op("has_component", NoHandle, id, type, None, "blocked")
            /\ status' = "deadlocked"
    /\ UNCHANGED <<world, commands, handles, refs, world_lock, systems, scripts, threads, journal>>

\* let world = self.world.read(); world.get_component::<T>(id) then f(comp):
\* the read guard is held while f runs and released on return
WithShared(id, type, cb, opname) ==
    LET op == Op(opname, NoHandle, id, type, None, "Some")
    IN /\ status = "running"
       /\ UNCHANGED <<world, commands, handles, refs, world_lock, systems, scripts, threads, journal>>
       /\ IF ~CanRead
          THEN /\ last' = [op EXCEPT !.result = "blocked"]
               /\ status' = "deadlocked"
          ELSE IF get_component(TheWorld, id, type) = None
          THEN /\ last' = [op EXCEPT !.result = "None"]
               /\ UNCHANGED status
          ELSE IF ~CallbackReturns(cb, lock_read(world_lock))
          THEN /\ last' = [op EXCEPT !.result = "blocked"]
               /\ status' = "deadlocked"
          ELSE /\ last' = op
               /\ UNCHANGED status

\* let mut world = self.world.write(); world.get_component_mut::<T>(id) then
\* f(comp): f may assign the component (value); the write guard is held while f
\* runs
WithExclusive(id, type, cb, value, opname) ==
    LET op == Op(opname, NoHandle, id, type, Some(value), "Some")
    IN /\ status = "running"
       /\ UNCHANGED <<commands, handles, refs, world_lock, systems, scripts, threads, journal>>
       /\ IF ~CanWrite
          THEN /\ last' = [op EXCEPT !.result = "blocked"]
               /\ status' = "deadlocked"
               /\ UNCHANGED world
          ELSE IF get_component(TheWorld, id, type) = None
          THEN /\ last' = [op EXCEPT !.result = "None"]
               /\ UNCHANGED <<world, status>>
          ELSE IF ~CallbackReturns(cb, lock_write(world_lock))
          THEN /\ last' = [op EXCEPT !.result = "blocked"]
               /\ status' = "deadlocked"
               /\ UNCHANGED world
          ELSE /\ SetWorld(add_component(TheWorld, id, type, value))
               /\ last' = op
               /\ UNCHANGED status

\* Entity::with_component
Entity_with_component(id, type, cb) == WithShared(id, type, cb, "with_component")

\* Entity::with_component_mut
Entity_with_component_mut(id, type, cb, value) ==
    WithExclusive(id, type, cb, value, "with_component_mut")

\* ComponentRef::with, on the reference Entity::get_component hands out
ComponentRef_with(id, type, cb) == WithShared(id, type, cb, "ComponentRef_with")

\* ComponentRefMut::with, on the reference Entity::get_component_mut hands out
ComponentRefMut_with(id, type, cb, value) ==
    WithExclusive(id, type, cb, value, "ComponentRefMut_with")

\* ------------------------------------------------ lookups and queries
\* World::get_component, called on the World
World_get_component(id, type) ==
    LET r == get_component(TheWorld, id, type)
    IN /\ status = "running"
       /\ last' = Op("get_component", NoHandle, id, type, r,
                     IF r = None THEN "None" ELSE "Some")
       /\ UNCHANGED <<world, commands, handles, refs, world_lock, status, systems, scripts, threads, journal>>

\* World::get_component_mut, called on the World
World_get_component_mut(id, type) ==
    LET r == get_component_mut(TheWorld, id, type)
    IN /\ status = "running"
       /\ SetWorld(r.world)
       /\ last' = Op("get_component_mut", NoHandle, id, type, r.result,
                     IF r.result = None THEN "None" ELSE "Some")
       /\ UNCHANGED <<commands, handles, refs, world_lock, status, systems, scripts, threads, journal>>

\* World::query::<T>(); the result is kept in last.value
World_query(type) ==
    /\ status = "running"
    /\ \E order \in Query2Orders(TheWorld, type) :
           last' = Op("query", NoHandle, NoEntity, type, query(TheWorld, type, order), "ok")
    /\ UNCHANGED <<world, commands, handles, refs, world_lock, status, systems, scripts, threads, journal>>

\* World::query2::<T1, T2>(); last.type is the pair of types, last.value the result
World_query2(t1, t2) ==
    /\ status = "running"
    /\ \E order \in Query2Orders(TheWorld, t1) :
           last' = Op("query2", NoHandle, NoEntity, <<t1, t2>>,
                      query2(TheWorld, t1, t2, order), "ok")
    /\ UNCHANGED <<world, commands, handles, refs, world_lock, status, systems, scripts, threads, journal>>

\* Entity::get_component: Some(ComponentRef::new(self.world.clone(), self.id)); no
\* lock is taken and the World is not consulted
Entity_get_component(id, type) ==
    /\ status = "running"
    /\ last' = Op("Entity_get_component", NoHandle, id, type, None, "Some")
    /\ UNCHANGED <<world, commands, handles, refs, world_lock, status, systems, scripts, threads, journal>>

\* Entity::get_component_mut: Some(ComponentRefMut::new(self.world.clone(), self.id))
Entity_get_component_mut(id, type) ==
    /\ status = "running"
    /\ last' = Op("Entity_get_component_mut", NoHandle, id, type, None, "Some")
    /\ UNCHANGED <<world, commands, handles, refs, world_lock, status, systems, scripts, threads, journal>>

\* ------------------------------------------------------- SystemExecutor
\* the systems registered in the model, each an impl System whose execute
\* works on entity 0:
\*   SetA    world.add_component(0, A(1))
\*   IncA    if let Some(a) = world.get_component_mut::<A>(0) { a.0 += 1 }
\*   CopyAB  if let Some(a) = world.get_component::<A>(0) { world.add_component(0, B(a.0)) }
SystemKinds == {"SetA", "IncA", "CopyAB"}

\* System::execute of one system
run_system(w, kind) ==
    LET a == get_component(w, 0, "A")
    IN CASE kind = "SetA" -> add_component(w, 0, "A", 1)
         [] kind = "IncA" -> IF a = None THEN w ELSE add_component(w, 0, "A", a[1] + 1)
         [] kind = "CopyAB" -> IF a = None THEN w ELSE add_component(w, 0, "B", a[1])

RECURSIVE RunFrom(_, _)
\* the loop of SystemExecutor::execute: acc is the World so far and the systems
\* that have run
RunFrom(acc, syss) ==
    IF syss = <<>> THEN acc
    ELSE RunFrom([world |-> run_system(acc.world, Head(syss)),
                  ran |-> Append(acc.ran, Head(syss))], Tail(syss))

RECURSIVE RunFromBack(_, _)
RunFromBack(acc, syss) ==
    IF syss = <<>> THEN acc
    ELSE RunFromBack([world |-> run_system(acc.world, syss[Len(syss)]),
                      ran |-> Append(acc.ran, syss[Len(syss)])],
                     SubSeq(syss, 1, Len(syss) - 1))

\* an executor that runs the systems last registered first
execute_systems_reversed(w, syss) == RunFromBack([world |-> w, ran |-> <<>>], syss)

\* SystemExecutor::execute: for system in &mut self.systems { system.execute(world, dt) }
execute_systems(w, syss) == RunFrom([world |-> w, ran |-> <<>>], syss)

\* SystemExecutor::add_system: self.systems.push(Box::new(system))
SystemExecutor_add_system(kind) ==
    /\ status = "running"
    /\ Len(systems) < MaxSystems
    /\ systems' = Append(systems, kind)
    /\ last' = Op("add_system", NoHandle, NoEntity, NoType, None, "ok")
    /\ UNCHANGED <<world, commands, handles, refs, world_lock, status, scripts, threads, journal>>

\* SystemExecutor::execute on the World
SystemExecutor_execute ==
    LET r == execute_systems(TheWorld, systems)
    IN /\ status = "running"
       /\ \A t \in Types : get_component(r.world, 0, t) \in {None} \cup {Some(v) : v \in 1 .. MaxValue}
       /\ SetWorld(r.world)
       /\ last' = [Op("execute_systems", NoHandle, NoEntity, NoType, None, "ok")
                      EXCEPT !.applied = r.ran]
       /\ UNCHANGED <<commands, handles, refs, world_lock, status, systems, scripts, threads, journal>>

\* ------------------------------------------------------ script components
\* Position is modelled by type "A" and Velocity by type "B"; a value stands for
\* one coordinate.  A script component is modelled by its type and its
\* parameter: MoverScript { speed } and CollisionMoverScript { speed } (in a
\* World without BoxCollider the collision loop is empty) ask for the entity's
\* position plus velocity * speed through move_position; SetterScript { x }
\* stands for a script that calls set_position(entity, x).
ScriptTypes == {"MoverScript", "CollisionMoverScript", "SetterScript"}

\* UpdateContext::new
UpdateContextNew == EmptyMap

\* UpdateContext::set_position: position_updates.insert(entity, Position { x, y })
set_position(ctx, entity, x) ==
    [e \in (DOMAIN ctx) \cup {entity} |-> IF e = entity THEN x ELSE ctx[e]]

\* UpdateContext::move_position: records pos + dx when the entity has a Position
move_position(ctx, entity, dx, w) ==
    LET pos == get_component(w, entity, "A")
    IN IF pos # None THEN set_position(ctx, entity, pos[1] + dx) ELSE ctx

\* World::add_script_component: the script storage of the type, created on
\* first use, gets the entity's script (HashMap::insert)
add_script_component(sc, entity, stype, param) ==
    LET storage == IF stype \in DOMAIN sc THEN sc[stype] ELSE EmptyMap
    IN [t \in (DOMAIN sc) \cup {stype} |->
           IF t = stype THEN StorageInsert(storage, entity, param) ELSE sc[t]]

\* ScriptComponent::update of the script types
script_update(stype, param, entity, w, ctx) ==
    LET vel == get_component(w, entity, "B")
    IN IF stype = "SetterScript" THEN set_position(ctx, entity, param)
       ELSE IF vel # None THEN move_position(ctx, entity, vel[1] * param, w)
       ELSE ctx

\* a script pass in which a script sees the positions requested so far
ScriptView_with_pending(w, ctx) ==
    [w EXCEPT !.components =
        [t \in DOMAIN w.components |->
            IF t = "A"
            THEN [e \in DOMAIN w.components[t] |->
                     IF e \in DOMAIN ctx THEN ctx[e] ELSE w.components[t][e]]
            ELSE w.components[t]]]

\* the World a script is handed while the passes run: &*world_ptr, the World
\* itself, which nothing has written yet
ScriptView(w, ctx) == w

RECURSIVE update_all(_, _, _, _, _)
\* TypedScriptStorage::update_all over the keys in the order es; acc is the
\* context so far and the record of the updates made
update_all(stype, storage, es, w, acc) ==
    IF es = <<>> THEN acc
    ELSE LET e == Head(es)
             view == ScriptView(w, acc.ctx)
             ctx1 == script_update(stype, storage[e], e, view, acc.ctx)
             asks == e \in DOMAIN script_update(stype, storage[e], e, view, UpdateContextNew)
         IN update_all(stype, storage, Tail(es), w,
                       [ctx |-> ctx1,
                        ran |-> Append(acc.ran,
                                       [script |-> stype, entity |-> e,
                                        saw |-> get_component(view, e, "A"),
                                        asked |-> IF asks THEN Some(ctx1[e]) ELSE None])])

RECURSIVE update_types(_, _, _, _, _)
\* the loop of update_scripts over the script types in the order ts
update_types(sc, ts, orders, w, acc) ==
    IF ts = <<>> THEN acc
    ELSE update_types(sc, Tail(ts), orders, w,
                      update_all(Head(ts), sc[Head(ts)], orders[Head(ts)], w, acc))

\* the last loop of update_scripts: a recorded position is written where
\* get_component_mut::<Position>(entity) is Some
apply_position_updates(w, ctx) ==
    [w EXCEPT !.components =
        [t \in DOMAIN w.components |->
            IF t = "A"
            THEN [e \in DOMAIN w.components[t] |->
                     IF e \in DOMAIN ctx THEN ctx[e] ELSE w.components[t][e]]
            ELSE w.components[t]]]

\* World::update_scripts; ts is the iteration order of the script types and
\* orders[t] the iteration order of the keys of type t
update_scripts(w, sc, ts, orders) ==
    LET r == update_types(sc, ts, orders, w, [ctx |-> UpdateContextNew, ran |-> <<>>])
    IN [world |-> apply_position_updates(w, r.ctx), ran |-> r.ran]

\* World::add_script_component on the Scene's World
World_add_script_component(entity, stype, param) ==
    /\ status = "running"
    /\ scripts' = add_script_component(scripts, entity, stype, param)
    /\ last' = Op("add_script_component", NoHandle, entity, stype, Some(param), "ok")
    /\ UNCHANGED <<world, commands, handles, refs, world_lock, status, systems, threads, journal>>

\* World::update_scripts on the Scene's World, while the coordinates are within
\* the range modelled
World_update_scripts ==
    /\ status = "running"
    /\ \A e \in EntityIds :
          get_component(TheWorld, e, "A") # None => get_component(TheWorld, e, "A")[1] <= MaxValue
    /\ \E ts \in Orders(DOMAIN scripts) :
       \E orders \in [DOMAIN scripts -> UNION {Orders(DOMAIN scripts[t]) : t \in DOMAIN scripts}] :
          /\ \A t \in DOMAIN scripts : orders[t] \in Orders(DOMAIN scripts[t])
          /\ LET r == update_scripts(TheWorld, scripts, ts, orders)
             IN /\ SetWorld(r.world)
                /\ last' = [Op("update_scripts", NoHandle, NoEntity, NoType, None, "ok")
                               EXCEPT !.applied = r.ran]
    /\ UNCHANGED <<commands, handles, refs, world_lock, status, systems, scripts, threads, journal>>

\* ------------------------------------------------------ MovementSystem
\* Transform is modelled by type "A" and Velocity by type "B"; a component value
\* stands for one coordinate

\* World::query2_mut, first pass: the ids that hold both types, collected
\* read-only in the iteration order of the first storage
query2_mut_ids(w, t1, t2, order) ==
    LET r == query2(w, t1, t2, order)
    IN [i \in 1 .. Len(r) |-> r[i][1]]

\* a loop body that also writes the velocity
MovementSystem_body_writes_velocity(w, e, dt) ==
    LET transform == get_component(w, e, "A")[1]
        velocity == get_component(w, e, "B")[1]
    IN add_component(add_component(w, e, "A", transform + velocity * dt),
                     e, "B", velocity * dt)

\* the loop body of MovementSystem::execute on the pair of entity e, reached by
\* id in the second pass: transform.x += velocity.x * delta_time
MovementSystem_body(w, e, dt) ==
    LET transform == get_component(w, e, "A")[1]
        velocity == get_component(w, e, "B")[1]
    IN add_component(w, e, "A", transform + velocity * dt)

RECURSIVE MovementSystem_loop(_, _, _)
\* for (transform, velocity) in world.query2_mut::<Transform, Velocity>() { ... }
MovementSystem_loop(acc, ids, dt) ==
    IF ids = <<>> THEN acc
    ELSE MovementSystem_loop([world |-> MovementSystem_body(acc.world, Head(ids), dt),
                              visited |-> Append(acc.visited, Head(ids))],
                             Tail(ids), dt)

\* MovementSystem::execute(world, delta_time); it runs while the coordinates are
\* within the range modelled
MovementSystem_execute(order, dt) ==
    LET ids == query2_mut_ids(TheWorld, "A", "B", order)
        r == MovementSystem_loop([world |-> TheWorld, visited |-> <<>>], ids, dt)
    IN /\ status = "running"
       /\ \A i \in 1 .. Len(ids) : get_component(TheWorld, ids[i], "A")[1] <= MaxValue
       /\ SetWorld(r.world)
       /\ last' = [Op("MovementSystem_execute", NoHandle, NoEntity, <<"A", "B">>, Some(dt), "ok")
                      EXCEPT !.applied = r.visited]
       /\ UNCHANGED <<commands, handles, refs, world_lock, status, systems, scripts, threads, journal>>

\* ------------------------------------------------ threads on one Scene
\* Scene holds Arc<RwLock<World>> and Arc<RwLock<CommandBuffer>>; every thread
\* works through a handle of its own (handles[t]) on the same entity.  A call is
\* split at the points where it takes a lock: a thread whose lock is not free
\* waits (its step is not enabled) until the holder releases it.
ThreadWorldWriteOps == {"add_component", "remove_component", "destroy",
                        "with_component_mut", "get_component_raw_mut"}
ThreadWorldReadOps == {"has_component", "with_component", "get_component_raw"}
ThreadEnqueueOps == {"add_component_deferred", "remove_component_deferred", "destroy_deferred"}
ThreadBufferOps == ThreadEnqueueOps \cup {"apply_commands"}
ThreadRawOps == {"get_component_raw", "get_component_raw_mut"}
\* operations that carry a component value
ThreadValueOps == {"add_component", "with_component_mut", "get_component_raw_mut",
                   "add_component_deferred"}

\* the two statements of Entity::new, each under a world.write() of its own
ThreadNewOps == {"create_entity_id", "register_entity"}

\* threads inside a call of one of the operations ops
InCall(ops) == {u \in ThreadIds : threads[u].pc # "idle" /\ threads[u].op \in ops}

\* the command a deferred operation pushes
ThreadCommand(op, e, type, value) ==
    CASE op = "add_component_deferred" -> CmdAddComponent(e, type, value[1])
      [] op = "remove_component_deferred" -> CmdRemoveComponent(e, type)
      [] op = "destroy_deferred" -> CmdDestroyEntity(e)

\* a thread enters a call; the journal notes the command of a deferred operation
\* in the order the thread issues it.  A raw accessor starts with
\* self.borrow_tracker.borrow_read() / borrow_write(), before it asks for the
\* World lock: the tracker is borrowed while the call waits, or the call panics
Thread_call(t, op, type, value) ==
    LET raw == op \in ThreadRawOps
        b == IF op = "get_component_raw_mut" THEN borrow_write(handles[t])
             ELSE borrow_read(handles[t])
    IN
    /\ status = "running"
    /\ threads[t].pc = "idle"
    /\ op = "Entity_new" =>
           next_entity_id + Cardinality(InCall({"create_entity_id"})) < MaxEntities
    /\ op \in ThreadEnqueueOps =>
           Len(journal.enqueued) + Cardinality(InCall(ThreadEnqueueOps)) < MaxJournal
    /\ (op \in ThreadValueOps) = (value # None)
    /\ threads' = [threads EXCEPT ![t] =
                      [ThreadIdle EXCEPT !.pc = "called",
                                         !.op = IF op = "Entity_new" THEN "create_entity_id"
                                                ELSE op,
                                         !.type = type, !.value = value,
                                         \* commands whose enqueue completed before this call
                                         !.mark = IF op = "apply_commands"
                                                  THEN Len(journal.enqueued) ELSE 0]]
    /\ journal' = IF op \in ThreadEnqueueOps
                  THEN [journal EXCEPT !.issued[t] =
                            Append(@, ThreadCommand(op, handles[t].id, type, value))]
                  ELSE journal
    /\ last' = Op("call", t, handles[t].id, type, value, IF raw /\ ~b.ok THEN "panic" ELSE op)
    /\ handles' = IF raw THEN [handles EXCEPT ![t] = b.tracker] ELSE handles
    /\ status' = IF raw /\ ~b.ok THEN "panicked" ELSE status
    /\ UNCHANGED <<world, commands, refs, world_lock, systems, scripts>>

\* self.world.write() / self.world.read() returns to the thread; a raw accessor,
\* which holds its tracker borrow since the call started, gives both guards
\* back at once when the component is absent (try_map(...).ok()?)
Thread_lock_world(t) ==
    LET th == threads[t]
        is_write == th.op \in ThreadWorldWriteOps \cup ThreadNewOps
        raw == th.op \in ThreadRawOps
        absent == get_component(TheWorld, handles[t].id, th.type) = None
    IN /\ status = "running"
       /\ th.pc = "called"
       /\ th.op \in ThreadWorldWriteOps \cup ThreadWorldReadOps \cup ThreadNewOps
       /\ IF ~is_write THEN LockCanRead(world_lock)
          ELSE IF th.parked THEN LockHandover(world_lock)
          ELSE LockCanWrite(world_lock)
       /\ IF raw /\ absent
          THEN /\ threads' = [threads EXCEPT ![t] = ThreadIdle]
               /\ last' = Op(th.op, t, handles[t].id, th.type, th.value, "None")
               /\ world_lock' = [world_lock EXCEPT !.pending = IF th.parked THEN FALSE ELSE @]
               /\ handles' = [handles EXCEPT ![t] = guard_drop(handles[t], is_write)]
               /\ UNCHANGED refs
          ELSE /\ threads' = [threads EXCEPT ![t] =
                                 [th EXCEPT !.pc = "locked_world",
                                            !.hold = IF is_write THEN "write" ELSE "read",
                                            !.seen = Some(TheWorld),
                                            !.parked = FALSE]]
               /\ world_lock' = IF is_write
                                THEN [lock_write(world_lock) EXCEPT
                                         !.pending = IF th.parked THEN FALSE ELSE @]
                                ELSE lock_read(world_lock)
               /\ UNCHANGED handles
               /\ refs' = IF raw
                          THEN Append(refs, [handle |-> t, is_write |-> is_write, type |-> th.type])
                          ELSE refs
               /\ last' = Op("lock_world", t, handles[t].id, th.type, th.value, th.op)
       /\ UNCHANGED <<world, commands, status, systems, scripts, journal>>

\* the handles of the one thread that keeps the raw references it is handed
RawThreadHandles == ThreadIds \ {MaxThreads}

\* the thread that keeps raw references is inside no call
RawThreadIdle == \A u \in RawThreadHandles : threads[u].pc = "idle"

\* get_component_raw after its borrow_read: self.world.read() returns and the
\* call hands the ComponentRefer to the caller, who keeps it (try_map(..).ok()?
\* drops both guards when the component is absent).  While another thread holds
\* the write guard, or the announced writer is being served, the call waits.
\* When a write() is announced and every reader it waits for is a reference of
\* the calling thread, read() never returns
Thread_read_world_raw(t) ==
    LET th == threads[t]
        absent == get_component(TheWorld, handles[t].id, th.type) = None
        own == {i \in 1 .. Len(refs) : refs[i].handle \in RawThreadHandles /\ ~refs[i].is_write}
        op == Op("get_component_raw", t, handles[t].id, th.type, None, "Some")
    IN /\ status = "running"
       /\ th.pc = "called"
       /\ th.op = "get_component_raw"
       /\ IF LockCanRead(world_lock)
          THEN IF absent
               THEN /\ handles' = [handles EXCEPT ![t] = guard_drop(handles[t], FALSE)]
                    /\ last' = [op EXCEPT !.result = "None"]
                    /\ threads' = [threads EXCEPT ![t] = ThreadIdle]
                    /\ UNCHANGED <<refs, world_lock, status>>
               ELSE /\ refs' = Append(refs, [handle |-> t, is_write |-> FALSE, type |-> th.type])
                    /\ world_lock' = lock_read(world_lock)
                    /\ last' = op
                    /\ threads' = [threads EXCEPT ![t] = ThreadIdle]
                    /\ UNCHANGED <<handles, status>>
          ELSE /\ world_lock.pending
               /\ world_lock.readers > 0
               /\ world_lock.readers = Cardinality(own)
               /\ status' = "deadlocked"
               /\ last' = [op EXCEPT !.result = "blocked"]
               /\ UNCHANGED <<handles, refs, world_lock, threads>>
       /\ UNCHANGED <<world, commands, systems, scripts, journal>>

\* self.world.write() finds readers on the lock: it announces itself and waits
\* for them to leave, and from then on the lock admits no new reader
Thread_park_world(t) ==
    LET th == threads[t]
    IN /\ status = "running"
       /\ \/ th.pc = "called" /\ th.op \in ThreadWorldWriteOps \cup ThreadNewOps
          \/ th.pc = "locked_buffer" /\ th.op = "apply_commands"
       /\ ~th.parked
       /\ world_lock.readers > 0 /\ ~world_lock.writer /\ ~world_lock.pending
       /\ world_lock' = [world_lock EXCEPT !.pending = TRUE]
       /\ threads' = [threads EXCEPT ![t] = [th EXCEPT !.parked = TRUE]]
       /\ last' = Op("park_world", t, handles[t].id, th.type, th.value, th.op)
       /\ UNCHANGED <<world, commands, handles, refs, status, systems, scripts, journal>>

\* what the call does to the World between taking the guard and dropping it
ThreadEffect(w, op, e, type, value) ==
    CASE op = "create_entity_id" -> Entity_new_first(w).world
      [] op = "register_entity" -> Entity_new_second(w, value[1])
      [] op = "add_component" -> add_component(w, e, type, value[1])
      [] op = "remove_component" -> remove_component(w, e, type)
      [] op = "destroy" -> destroy_entity(w, e)
      [] op \in {"with_component_mut", "get_component_raw_mut"} ->
            \* the closure, or the holder of the &mut, stores a new value
            IF get_component(w, e, type) = None THEN w ELSE add_component(w, e, type, value[1])
      [] OTHER -> w

\* the call acts on the World and its guard is dropped (for a raw reference:
\* the reference goes out of scope)
Thread_unlock_world(t) ==
    LET th == threads[t]
        is_write == th.hold = "write"
        raw == th.op \in ThreadRawOps
        i == CHOOSE k \in 1 .. Len(refs) : refs[k].handle = t
        w == ThreadEffect(TheWorld, th.op, handles[t].id, th.type, th.value)
    IN /\ status = "running"
       /\ th.pc = "locked_world"
       /\ SetWorld(w)
       /\ world_lock' = lock_release(world_lock, is_write)
       /\ handles' = IF raw THEN [handles EXCEPT ![t] = guard_drop(handles[t], is_write)]
                     ELSE IF th.op = "register_entity"
                     THEN \* Entity::new returns a handle with a tracker of its own
                          Append(handles, TrackerNew(th.value[1]))
                     ELSE handles
       /\ refs' = IF raw THEN RemoveAt(refs, i) ELSE refs
       /\ threads' = [threads EXCEPT ![t] =
                          IF th.op = "create_entity_id"
                          THEN \* Entity::new goes on to its second statement with the id
                               [ThreadIdle EXCEPT !.pc = "called", !.op = "register_entity",
                                                  !.type = th.type,
                                                  !.value = Some(Entity_new_first(TheWorld).id)]
                          ELSE ThreadIdle]
       /\ last' = CASE th.op = "create_entity_id" ->
                         Op("create_entity_id", t, Entity_new_first(TheWorld).id, th.type, None, "ok")
                     [] th.op = "register_entity" ->
                         Op("Entity_new", t, th.value[1], th.type, None, "ok")
                     [] OTHER ->
                         Op(th.op, t, handles[t].id, th.type, th.value,
                            IF th.op \in {"has_component", "with_component"}
                            THEN (IF has_component(TheWorld, handles[t].id, th.type)
                                  THEN "true" ELSE "false")
                            ELSE "ok")
       /\ UNCHANGED <<commands, status, systems, scripts, journal>>

\* self.command_buffer.write() returns to the thread
Thread_lock_buffer(t) ==
    /\ status = "running"
    /\ threads[t].pc = "called"
    /\ threads[t].op \in ThreadBufferOps
    /\ \A u \in ThreadIds : ~threads[u].buffer
    /\ threads' = [threads EXCEPT ![t] = [@ EXCEPT !.pc = "locked_buffer", !.buffer = TRUE]]
    /\ last' = Op("lock_buffer", t, handles[t].id, threads[t].type, threads[t].value, threads[t].op)
    /\ UNCHANGED <<world, commands, handles, refs, world_lock, status, systems, scripts, journal>>

\* the deferred operation pushes its command and drops the buffer guard
Thread_enqueue(t) ==
    LET th == threads[t]
        c == ThreadCommand(th.op, handles[t].id, th.type, th.value)
    IN /\ status = "running"
       /\ th.pc = "locked_buffer"
       /\ th.op \in ThreadEnqueueOps
       /\ commands' = push(commands, c)
       /\ journal' = [journal EXCEPT !.enqueued = Append(@, c), !.owner = Append(@, t)]
       /\ threads' = [threads EXCEPT ![t] = ThreadIdle]
       /\ last' = Op(th.op, t, handles[t].id, th.type, th.value, "ok")
       /\ UNCHANGED <<world, handles, refs, world_lock, status, systems, scripts>>

\* Scene::apply_commands, second statement: let mut world = self.world.write()
Thread_apply_lock_world(t) ==
    /\ status = "running"
    /\ threads[t].pc = "locked_buffer"
    /\ threads[t].op = "apply_commands"
    /\ IF threads[t].parked THEN LockHandover(world_lock) ELSE LockCanWrite(world_lock)
    /\ world_lock' = [lock_write(world_lock) EXCEPT
                         !.pending = IF threads[t].parked THEN FALSE ELSE @]
    /\ threads' = [threads EXCEPT ![t] = [@ EXCEPT !.pc = "locked_both", !.hold = "write",
                                                   !.seen = Some(TheWorld),
                                                   !.parked = FALSE]]
    /\ last' = Op("lock_world", t, handles[t].id, threads[t].type, None, "apply_commands")
    /\ UNCHANGED <<world, commands, handles, refs, status, systems, scripts, journal>>

\* Scene::apply_commands, third statement: cmd_buffer.execute(&mut world), then
\* both guards are dropped
Thread_apply_commands(t) ==
    LET r == execute(TheWorld, commands)
    IN /\ status = "running"
       /\ threads[t].pc = "locked_both"
       /\ SetWorld(r.world)
       /\ commands' = r.commands
       /\ journal' = [journal EXCEPT !.applied = @ \o commands]
       /\ world_lock' = lock_release(world_lock, TRUE)
       /\ threads' = [threads EXCEPT ![t] = ThreadIdle]
       /\ last' = [Op("apply_commands", t, NoEntity, NoType, Some(threads[t].mark), "ok")
                      EXCEPT !.applied = commands]
       /\ UNCHANGED <<handles, refs, status, systems, scripts>>

\* ------------------------------------------------------- specification
Init ==
    /\ next_entity_id = 0
    /\ entities = <<>>
    /\ components = EmptyMap
    /\ commands = <<>>
    /\ handles = <<>>
    /\ refs = <<>>
    /\ world_lock = LockNew
    /\ status = "running"
    /\ systems = <<>>
    /\ scripts = EmptyMap
    /\ threads = ThreadsNew
    /\ journal = JournalNew
    /\ last = Op("new", NoHandle, NoEntity, NoType, None, "ok")

\* the immediate operations of the Scene and its handles
Next ==
    \/ Scene_instantiate
    \/ World_create_entity
    \/ \E id \in EntityIds, type \in Types, value \in Values : Entity_add_component(id, type, value)
    \/ \E id \in EntityIds, type \in Types : Entity_remove_component(id, type)
    \/ \E id \in EntityIds : Entity_destroy(id)
    \/ \E id \in EntityIds : World_delete_entity(id)

Spec == Init /\ [][Next]_vars

\* the deferred operations and apply_commands, on components of one type
DeferredTypes == {"A"}
SetupTypes == DeferredTypes \cup {NoType}

NextDeferred ==
    \/ Scene_instantiate
    \/ \E id \in EntityIds, type \in DeferredTypes, value \in Values : Entity_add_component_deferred(id, type, value)
    \/ \E id \in EntityIds, type \in DeferredTypes : Entity_remove_component_deferred(id, type)
    \/ \E id \in EntityIds : Entity_destroy_deferred(id)
    \/ \E type \in SetupTypes, value \in Values : CommandBuffer_create_entity(type, value)
    \/ Scene_apply_commands

SpecDeferred == Init /\ [][NextDeferred]_vars

\* immediate adds mixed with the deferred operations, on components of two
\* types that all have the value 1
MixValues == {1}

NextMixed ==
    \/ Scene_instantiate
    \/ \E id \in EntityIds, type \in Types, value \in MixValues : Entity_add_component(id, type, value)
    \/ \E id \in EntityIds, type \in Types, value \in MixValues : Entity_add_component_deferred(id, type, value)
    \/ \E id \in EntityIds, type \in Types : Entity_remove_component_deferred(id, type)
    \/ \E id \in EntityIds : Entity_destroy_deferred(id)
    \/ \E value \in MixValues : CommandBuffer_create_entity(NoType, value)
    \/ Scene_apply_commands

SpecMixed == Init /\ [][NextMixed]_vars

\* raw references: the Scene after
\*   let e0 = scene.instantiate(); e0.add_component(A 1);
\*   let e1 = scene.instantiate(); e1.add_component(A 2); e1.add_component(B 1);
\* with the handle e0 kept; further handles come from Scene::get_entity
BorrowWorld ==
    LET w1 == add_component(create_entity(WorldNew), 0, "A", 1)
        w2 == add_component(create_entity(w1), 1, "A", 2)
    IN add_component(w2, 1, "B", 1)

InitBorrow ==
    /\ next_entity_id = BorrowWorld.next_entity_id
    /\ entities = BorrowWorld.entities
    /\ components = BorrowWorld.components
    /\ commands = <<>>
    /\ handles = <<TrackerNew(0)>>
    /\ refs = <<>>
    /\ world_lock = LockNew
    /\ status = "running"
    /\ systems = <<>>
    /\ scripts = EmptyMap
    /\ threads = ThreadsNew
    /\ journal = JournalNew
    /\ last = Op("new", NoHandle, NoEntity, NoType, None, "ok")

NextBorrow ==
    \/ \E id \in EntityIds : Scene_get_entity(id)
    \/ Scene_get_world
    \/ \E h \in 1 .. Len(handles), type \in Types : Entity_get_component_raw(h, type)
    \/ \E h \in 1 .. Len(handles), type \in Types : Entity_get_component_raw_mut(h, type)
    \/ \E i \in 1 .. Len(refs) : DropRef(i)

SpecBorrow == InitBorrow /\ [][NextBorrow]_vars

\* raw references mixed with the other operations of a handle, on one thread;
\* the operations that go through the World lock alone work on type A
NextAccess ==
    \/ \E id \in EntityIds : Scene_get_entity(id)
    \/ Scene_get_world
    \/ \E h \in 1 .. Len(handles), type \in Types : Entity_get_component_raw(h, type)
    \/ \E h \in 1 .. Len(handles), type \in Types : Entity_get_component_raw_mut(h, type)
    \/ \E i \in 1 .. Len(refs) : DropRef(i)
    \/ \E id \in EntityIds, type \in DeferredTypes : Entity_has_component(id, type)
    \/ \E id \in EntityIds, type \in DeferredTypes, cb \in Callbacks :
           Entity_with_component(id, type, cb)
    \/ \E id \in EntityIds, type \in DeferredTypes, cb \in Callbacks, value \in MixValues :
           Entity_with_component_mut(id, type, cb, value)
    \/ \E id \in EntityIds, type \in DeferredTypes, cb \in Callbacks :
           ComponentRef_with(id, type, cb)
    \/ \E id \in EntityIds, type \in DeferredTypes, cb \in Callbacks, value \in MixValues :
           ComponentRefMut_with(id, type, cb, value)
    \/ \E id \in EntityIds, type \in DeferredTypes, value \in MixValues :
           Entity_add_component(id, type, value)
    \/ \E id \in EntityIds, type \in DeferredTypes : Entity_remove_component(id, type)
    \/ \E id \in EntityIds : Entity_destroy(id)
    \/ Scene_apply_commands

SpecAccess == InitBorrow /\ [][NextAccess]_vars

\* lookups, queries and removes, immediate and deferred, on components of
\* value 1
NextLookup ==
    \/ Scene_instantiate
    \/ \E id \in EntityIds, type \in Types, value \in MixValues : Entity_add_component(id, type, value)
    \/ \E id \in EntityIds, type \in Types : Entity_remove_component(id, type)
    \/ \E id \in EntityIds, type \in Types : Entity_remove_component_deferred(id, type)
    \/ Scene_apply_commands
    \/ \E id \in EntityIds, type \in Types : World_get_component(id, type)
    \/ \E id \in EntityIds, type \in Types : World_get_component_mut(id, type)
    \/ \E type \in Types : World_query(type)
    \/ \E t1, t2 \in Types : World_query2(t1, t2)
    \/ \E id \in EntityIds, type \in Types : Entity_get_component(id, type)
    \/ \E id \in EntityIds, type \in Types : Entity_get_component_mut(id, type)

SpecLookup == Init /\ [][NextLookup]_vars

\* a SystemExecutor working on a World that holds the entity 0
InitSystems ==
    /\ next_entity_id = create_entity(WorldNew).next_entity_id
    /\ entities = create_entity(WorldNew).entities
    /\ components = create_entity(WorldNew).components
    /\ commands = <<>>
    /\ handles = <<>>
    /\ refs = <<>>
    /\ world_lock = LockNew
    /\ status = "running"
    /\ systems = <<>>
    /\ scripts = EmptyMap
    /\ threads = ThreadsNew
    /\ journal = JournalNew
    /\ last = Op("new", NoHandle, NoEntity, NoType, None, "ok")

NextSystems ==
    \/ \E kind \in SystemKinds : SystemExecutor_add_system(kind)
    \/ SystemExecutor_execute

SpecSystems == InitSystems /\ [][NextSystems]_vars

\* entities are created, given and deprived of Transform and Velocity, and the
\* movement pass runs
NextMovement ==
    \/ Scene_instantiate
    \/ \E id \in EntityIds, type \in Types, value \in Values : Entity_add_component(id, type, value)
    \/ \E id \in EntityIds, type \in Types : Entity_remove_component(id, type)
    \/ \E order \in Query2Orders(TheWorld, "A"), dt \in Values : MovementSystem_execute(order, dt)

SpecMovement == Init /\ [][NextMovement]_vars

\* deferred adds and deferred creations whose setup closure either uses the
\* World it is given or takes the World lock of the Scene
NextReentrant ==
    \/ Scene_instantiate
    \/ \E id \in EntityIds, type \in DeferredTypes, value \in MixValues :
          Entity_add_component_deferred(id, type, value)
    \/ \E type \in SetupTypes \cup {ReentrantSetup}, value \in MixValues :
          CommandBuffer_create_entity(type, value)
    \/ Scene_apply_commands

SpecReentrant == Init /\ [][NextReentrant]_vars

\* entities get Position and Velocity and scripts, and the scripts are updated
NextScripts ==
    \/ Scene_instantiate
    \/ \E id \in EntityIds, type \in Types, value \in MixValues : Entity_add_component(id, type, value)
    \/ \E id \in EntityIds, stype \in ScriptTypes, param \in MixValues :
          World_add_script_component(id, stype, param)
    \/ World_update_scripts

SpecScripts == Init /\ [][NextScripts]_vars

\* immediate adds and destroys between deferred adds and removes of one type
NextTiming ==
    \/ Scene_instantiate
    \/ \E id \in EntityIds, type \in DeferredTypes, value \in MixValues :
          Entity_add_component(id, type, value)
    \/ \E id \in EntityIds : Entity_destroy(id)
    \/ \E id \in EntityIds, type \in DeferredTypes, value \in Values :
          Entity_add_component_deferred(id, type, value)
    \/ \E id \in EntityIds, type \in DeferredTypes :
          Entity_remove_component_deferred(id, type)
    \/ Scene_apply_commands

SpecTiming == Init /\ [][NextTiming]_vars

\* two threads on a Scene with one entity that holds an A
ThreadsWorld == add_component(create_entity(WorldNew), WorldNew.next_entity_id, "A", 2)

InitThreads ==
    /\ next_entity_id = ThreadsWorld.next_entity_id
    /\ entities = ThreadsWorld.entities
    /\ components = ThreadsWorld.components
    /\ commands = <<>>
    /\ handles = [t \in ThreadIds |-> TrackerNew(WorldNew.next_entity_id)]
    /\ refs = <<>>
    /\ world_lock = LockNew
    /\ status = "running"
    /\ systems = <<>>
    /\ scripts = EmptyMap
    /\ threads = ThreadsNew
    /\ journal = JournalNew
    /\ last = Op("new", NoHandle, NoEntity, NoType, None, "ok")

\* the threads use the immediate operations, one deferred operation and
\* apply_commands
NextThreads ==
    \/ \E t \in ThreadIds,
          op \in ThreadWorldWriteOps \cup ThreadWorldReadOps
                 \cup {"Entity_new", "add_component_deferred", "apply_commands"},
          type \in DeferredTypes, value \in {None} \cup {Some(v) : v \in MixValues} :
          Thread_call(t, op, type, value)
    \/ \E t \in ThreadIds : Thread_park_world(t)
    \/ \E t \in ThreadIds : Thread_lock_world(t)
    \/ \E t \in ThreadIds : Thread_unlock_world(t)
    \/ \E t \in ThreadIds : Thread_lock_buffer(t)
    \/ \E t \in ThreadIds : Thread_enqueue(t)
    \/ \E t \in ThreadIds : Thread_apply_lock_world(t)
    \/ \E t \in ThreadIds : Thread_apply_commands(t)

SpecThreads == InitThreads /\ [][NextThreads]_vars

\* the threads use the deferred operations and apply_commands, and one immediate
\* operation that competes with apply_commands for the World lock
NextThreadsDeferred ==
    \/ \E t \in ThreadIds, op \in ThreadBufferOps \cup {"has_component"},
          type \in DeferredTypes, value \in {None} \cup {Some(v) : v \in Values} :
          Thread_call(t, op, type, value)
    \/ \E t \in ThreadIds : Thread_park_world(t)
    \/ \E t \in ThreadIds : Thread_lock_world(t)
    \/ \E t \in ThreadIds : Thread_unlock_world(t)
    \/ \E t \in ThreadIds : Thread_lock_buffer(t)
    \/ \E t \in ThreadIds : Thread_enqueue(t)
    \/ \E t \in ThreadIds : Thread_apply_lock_world(t)
    \/ \E t \in ThreadIds : Thread_apply_commands(t)

SpecThreadsDeferred == InitThreads /\ [][NextThreadsDeferred]_vars

\* two threads on an empty Scene: they instantiate entities and use a handle
\* on the first id
InitThreadsNew ==
    /\ next_entity_id = WorldNew.next_entity_id
    /\ entities = WorldNew.entities
    /\ components = WorldNew.components
    /\ commands = <<>>
    /\ handles = [t \in ThreadIds |-> TrackerNew(WorldNew.next_entity_id)]
    /\ refs = <<>>
    /\ world_lock = LockNew
    /\ status = "running"
    /\ systems = <<>>
    /\ scripts = EmptyMap
    /\ threads = ThreadsNew
    /\ journal = JournalNew
    /\ last = Op("new", NoHandle, NoEntity, NoType, None, "ok")

NextThreadsNew ==
    \/ \E t \in ThreadIds,
          op \in {"Entity_new", "add_component", "destroy", "has_component"},
          type \in DeferredTypes, value \in {None} \cup {Some(v) : v \in MixValues} :
          Thread_call(t, op, type, value)
    \/ \E t \in ThreadIds : Thread_park_world(t)
    \/ \E t \in ThreadIds : Thread_lock_world(t)
    \/ \E t \in ThreadIds : Thread_unlock_world(t)

SpecThreadsNew == InitThreadsNew /\ [][NextThreadsNew]_vars

\* one thread takes and drops shared raw references through its handles while
\* the last thread adds and removes the component and destroys the entity.  A
\* get_component_raw is two steps, the borrow on the tracker at the call and the
\* read() on the World lock, which waits while the other thread holds the write
\* guard; the thread drops a reference only between its calls
NextRawThreads ==
    \/ \E h \in RawThreadHandles, type \in DeferredTypes :
          /\ RawThreadIdle
          /\ Len(refs) < MaxRefs
          /\ Thread_call(h, "get_component_raw", type, None)
    \/ \E h \in RawThreadHandles : Thread_read_world_raw(h)
    \/ \E i \in 1 .. Len(refs) : RawThreadIdle /\ DropRef(i)
    \/ \E op \in {"add_component", "remove_component", "destroy"}, type \in DeferredTypes,
          value \in {None} \cup {Some(v) : v \in Values} :
          Thread_call(MaxThreads, op, type, value)
    \/ Thread_park_world(MaxThreads)
    \/ Thread_lock_world(MaxThreads)
    \/ Thread_unlock_world(MaxThreads)

SpecRawThreads == InitThreads /\ [][NextRawThreads]_vars

\* the threads use immediate and deferred operations and apply_commands, none of
\* them a raw accessor
NextThreadsLive ==
    \/ \E t \in ThreadIds,
          op \in {"add_component", "remove_component", "has_component",
                  "add_component_deferred", "apply_commands"},
          type \in DeferredTypes, value \in {None} \cup {Some(v) : v \in MixValues} :
          Thread_call(t, op, type, value)
    \/ \E t \in ThreadIds : Thread_park_world(t)
    \/ \E t \in ThreadIds : Thread_lock_world(t)
    \/ \E t \in ThreadIds : Thread_unlock_world(t)
    \/ \E t \in ThreadIds : Thread_lock_buffer(t)
    \/ \E t \in ThreadIds : Thread_enqueue(t)
    \/ \E t \in ThreadIds : Thread_apply_lock_world(t)
    \/ \E t \in ThreadIds : Thread_apply_commands(t)

\* a thread inside a call keeps running, and parking_lot's RwLock hands the lock
\* over to a waiting thread eventually (eventual fairness): a waiter that could
\* take the lock again and again does take it
FairThreads ==
    \A t \in ThreadIds :
        /\ WF_vars(Thread_park_world(t))
        /\ SF_vars(Thread_lock_world(t))
        /\ SF_vars(Thread_lock_buffer(t))
        /\ SF_vars(Thread_apply_lock_world(t))
        /\ WF_vars(Thread_unlock_world(t))
        /\ WF_vars(Thread_enqueue(t))
        /\ WF_vars(Thread_apply_commands(t))

SpecThreadsLive == InitThreads /\ [][NextThreadsLive]_vars /\ FairThreads

\* ================================================================ claims
\* the (entity, type) slots of the bounded World
Slots == EntityIds \X Types

\* C1: immediately after an immediate add_component(e, v) of type T,
\* get_component::<T>(e) yields v and has_component::<T>(e) is true
C1_AddThenGet ==
    (last.op = "add_component" /\ last.result = "ok") =>
        /\ get_component(TheWorld, last.entity, last.type) = last.value
        /\ has_component(TheWorld, last.entity, last.type)

\* C1 witness: an immediate add of the value 2 has just returned and the
\* entity holds it, next to a component of the other type
C1_Witness ==
    /\ last.op = "add_component" /\ last.result = "ok"
    /\ last.value = Some(2)
    /\ get_component(TheWorld, last.entity, last.type) = Some(2)
    /\ \E t \in Types \ {last.type} : has_component(TheWorld, last.entity, t)

\* C6 (the claim as stated): immediately after an immediate destroy of an entity
\* e, by Entity::destroy or by World::delete_entity, e has no entry in
\* any Storage, no query2 returns e, and e is not in the registry, while the
\* components of every other entity, the other registered ids and the id
\* counter are as before
C6_DestroyRemovesAll ==
    (last.op \in {"destroy", "delete_entity"} /\ last.result = "ok") =>
        /\ \A t \in Types : ~has_component(TheWorld, last.entity, t)
        /\ \A t1, t2 \in Types : \A order \in Query2Orders(TheWorld, t1) :
               \A i \in 1 .. Len(query2(TheWorld, t1, t2, order)) :
                   query2(TheWorld, t1, t2, order)[i][1] # last.entity
        /\ \A i \in 1 .. Len(entities) : entities[i] # last.entity
        /\ \A e \in EntityIds \ {last.entity} : \A t \in Types :
               get_component(TheWorld, e, t) = get_component(last.before.world, e, t)
        /\ \A e \in EntityIds \ {last.entity} :
               (\E i \in 1 .. Len(entities) : entities[i] = e)
                   = (\E i \in 1 .. Len(last.before.world.entities) :
                          last.before.world.entities[i] = e)
        /\ next_entity_id = last.before.world.next_entity_id

\* C7: after an immediate remove_component::<T>(e), get_component::<T>(e) is
\* absent, and every other (entity, type) slot holds what it held before
C7_RemoveOnlyThatSlot ==
    (last.op = "remove_component" /\ last.result = "ok") =>
        /\ get_component(TheWorld, last.entity, last.type) = None
        /\ \A sl \in Slots :
               sl # <<last.entity, last.type>> =>
                   get_component(TheWorld, sl[1], sl[2]) = get_component(last.before.world, sl[1], sl[2])

\* C7 witness: a remove has just returned, T's Storage still holds another
\* entity and e still holds a component of another type
C7_Witness ==
    /\ last.op = "remove_component" /\ last.result = "ok"
    /\ has_component(last.before.world, last.entity, last.type)
    /\ ~has_component(TheWorld, last.entity, last.type)
    /\ \E e \in EntityIds \ {last.entity} : has_component(TheWorld, e, last.type)
    /\ \E t \in Types \ {last.type} : has_component(TheWorld, last.entity, t)

\* the entities that hold both a t1 and a t2
HoldBoth(w, t1, t2) == {e \in EntityIds : has_component(w, e, t1) /\ has_component(w, e, t2)}

\* C8: in every World state and for every iteration order, query2::<T1,T2>()
\* returns one tuple (e, c1, c2) for each entity holding both types, with that
\* entity's two components, and no tuple for any other entity
C8_Query2Intersection ==
    \A t1, t2 \in Types : \A order \in Query2Orders(TheWorld, t1) :
        LET r == query2(TheWorld, t1, t2, order)
        IN /\ {r[i][1] : i \in 1 .. Len(r)} = HoldBoth(TheWorld, t1, t2)
           /\ Len(r) = Cardinality(HoldBoth(TheWorld, t1, t2))
           /\ \A i \in 1 .. Len(r) :
                  /\ Some(r[i][2]) = get_component(TheWorld, r[i][1], t1)
                  /\ Some(r[i][3]) = get_component(TheWorld, r[i][1], t2)

\* C8 witness: T1 is held by two entities and T2 by one of them only, so the
\* intersection is a proper, non-empty subset of T1's entities
C8_Witness ==
    /\ "A" \in DOMAIN components /\ "B" \in DOMAIN components
    /\ Cardinality(DOMAIN components["A"]) >= 2
    /\ Cardinality(HoldBoth(TheWorld, "A", "B")) = 1
    /\ \E order \in Query2Orders(TheWorld, "A") : Len(query2(TheWorld, "A", "B", order)) = 1

\* ------------------------------------------------------ deferred claims
EnqueueOps == {"add_component_deferred", "remove_component_deferred",
               "destroy_deferred", "create_entity_deferred"}

\* the id the CreateEntity command at index i will be given when cmds is applied
\* to a World whose next id is next
CreatedId(cmds, i, next) == next + CountCreates(SubSeq(cmds, 1, i - 1))

\* command i of cmds writes the slot (e, t); a DestroyEntity of e writes every
\* slot of e
Touches(cmds, i, e, t, next) ==
    \/ /\ cmds[i].kind \in {"AddComponent", "RemoveComponent"}
       /\ cmds[i].entity = e /\ cmds[i].type = t
    \/ /\ cmds[i].kind = "DestroyEntity"
       /\ cmds[i].entity = e
    \/ /\ cmds[i].kind = "CreateEntity"
       /\ cmds[i].type = t /\ CreatedId(cmds, i, next) = e

\* command i of cmds writes the registry entry of e
TouchesRegistry(cmds, i, e, next) ==
    \/ cmds[i].kind = "DestroyEntity" /\ cmds[i].entity = e
    \/ cmds[i].kind = "CreateEntity" /\ CreatedId(cmds, i, next) = e

\* the largest index in S, 0 when S is empty
MaxIndex(S) == IF S = {} THEN 0 ELSE CHOOSE m \in S : \A k \in S : k <= m

LastTouch(cmds, e, t, next) ==
    MaxIndex({i \in 1 .. Len(cmds) : Touches(cmds, i, e, t, next)})
LastRegistryTouch(cmds, e, next) ==
    MaxIndex({i \in 1 .. Len(cmds) : TouchesRegistry(cmds, i, e, next)})

InSeq(s, x) == \E i \in 1 .. Len(s) : s[i] = x

\* C2: a deferred add of a T on an entity e that holds no T leaves
\* has_component::<T>(e) false, it stays false across every further operation
\* other than apply_commands and an immediate add of a T on e, and
\* apply_commands makes it true (when no remove of T on e and no destroy of e
\* was queued after it)
C2_DeferredAddVisibleOnApply ==
    \A sl \in Slots :
        LET e == sl[1]
            t == sl[2]
            pending == \E i \in 1 .. Len(commands) :
                           /\ commands[i].kind = "AddComponent"
                           /\ commands[i].entity = e /\ commands[i].type = t
            m == LastTouch(last.applied, e, t, last.before.world.next_entity_id)
        IN /\ ( /\ ~has_component(last.before.world, e, t)
                /\ pending
                /\ last.op # "apply_commands"
                /\ ~(last.op = "add_component" /\ last.entity = e /\ last.type = t) )
              => ~has_component(TheWorld, e, t)
           /\ ( /\ last.op = "apply_commands" /\ last.result = "ok"
                /\ m > 0
                /\ last.applied[m].kind = "AddComponent" )
              => has_component(TheWorld, e, t)

\* C2 witness: apply_commands has just drained a single deferred add of a T on
\* an entity that held no T, and the entity now holds that value
C2_Witness ==
    /\ last.op = "apply_commands" /\ last.result = "ok"
    /\ Len(last.applied) = 1
    /\ last.applied[1].kind = "AddComponent"
    /\ ~has_component(last.before.world, last.applied[1].entity, last.applied[1].type)
    /\ get_component(TheWorld, last.applied[1].entity, last.applied[1].type) = last.applied[1].value

\* C3: an enqueue (create_entity, add_component, remove_component,
\* destroy_entity on the buffer, the handle's *_deferred methods) leaves every
\* Storage, the registry and the next-id counter as they were
C3_EnqueueLeavesWorld ==
    (last.op \in EnqueueOps) =>
        /\ TheWorld = last.before.world
        /\ commands # <<>>
        /\ commands[Len(commands)].kind =
               CASE last.op = "add_component_deferred" -> "AddComponent"
                 [] last.op = "remove_component_deferred" -> "RemoveComponent"
                 [] last.op = "destroy_deferred" -> "DestroyEntity"
                 [] last.op = "create_entity_deferred" -> "CreateEntity"

\* C3 witness: a deferred add on e has just been enqueued after an immediate
\* add of another type on e: e holds the immediate one only
C3_Witness ==
    /\ last.op = "add_component_deferred"
    /\ ~has_component(TheWorld, last.entity, last.type)
    /\ \E t \in Types \ {last.type} : has_component(TheWorld, last.entity, t)
    /\ Len(commands) = 2

\* C4: when the queue holds a deferred add of A on e and after it a deferred
\* remove of A on e (and nothing later that writes A of e), apply_commands
\* leaves e without A
C4_AddThenRemove ==
    (last.op = "apply_commands" /\ last.result = "ok") =>
        \A sl \in Slots : \A i, j \in 1 .. Len(last.applied) :
            ( /\ i < j
              /\ last.applied[i] \in {CmdAddComponent(sl[1], sl[2], v) : v \in Values}
              /\ last.applied[j] = CmdRemoveComponent(sl[1], sl[2])
              /\ LastTouch(last.applied, sl[1], sl[2], last.before.world.next_entity_id) = j )
            => ~has_component(TheWorld, sl[1], sl[2])

\* C4 witness: apply_commands has just drained add(A, e) followed by
\* remove(A, e), and e holds no A
C4_Witness ==
    /\ last.op = "apply_commands" /\ last.result = "ok"
    /\ Len(last.applied) = 2
    /\ last.applied[1].kind = "AddComponent"
    /\ last.applied[2] = CmdRemoveComponent(last.applied[1].entity, last.applied[1].type)
    /\ ~has_component(TheWorld, last.applied[1].entity, last.applied[1].type)

\* C5: apply_commands applies the queued commands in the order they were
\* enqueued and leaves the buffer empty: every slot ends as its last queued
\* write left it (untouched slots keep their content), every registry entry as
\* its last queued create or destroy left it, and ids are handed to the queued
\* creations in queue order
C5_FifoAndEmptied ==
    (last.op = "apply_commands" /\ last.result = "ok") =>
        LET old == last.before.world
            cmds == last.applied
        IN /\ is_empty
           /\ next_entity_id = old.next_entity_id + CountCreates(cmds)
           /\ \A sl \in Slots :
                  LET m == LastTouch(cmds, sl[1], sl[2], old.next_entity_id)
                  IN get_component(TheWorld, sl[1], sl[2]) =
                         IF m = 0 THEN get_component(old, sl[1], sl[2])
                         ELSE cmds[m].value
           /\ \A e \in EntityIds :
                  LET m == LastRegistryTouch(cmds, e, old.next_entity_id)
                  IN InSeq(entities, e) <=>
                         IF m = 0 THEN InSeq(old.entities, e)
                         ELSE cmds[m].kind = "CreateEntity"

\* C5 witness: apply_commands has just drained remove(T, e) followed by
\* add(T, e, 2) for an entity that is not in the registry and holds no T; the
\* buffer is empty and e holds 2
C5_Witness ==
    /\ last.op = "apply_commands" /\ last.result = "ok"
    /\ is_empty
    /\ Len(last.applied) = 2
    /\ last.applied[1].kind = "RemoveComponent"
    /\ last.applied[2] = CmdAddComponent(last.applied[1].entity, last.applied[1].type, 2)
    /\ ~InSeq(last.before.world.entities, last.applied[1].entity)
    /\ ~has_component(last.before.world, last.applied[1].entity, last.applied[1].type)
    /\ get_component(TheWorld, last.applied[1].entity, last.applied[1].type) = Some(2)

\* ------------------------------------------------------- borrow claims
\* the live raw references taken through handle h
LiveRefs(h, is_write) == {i \in 1 .. Len(refs) : refs[i].handle = h /\ refs[i].is_write = is_write}

\* C9: for every tracker, write_count is 0 or 1 and never positive together
\* with read_count; at most one exclusive reference is outstanding, and none
\* together with a shared one
C9_ReadersXorWriter ==
    \A h \in 1 .. Len(handles) :
        /\ handles[h].write_count \in {0, 1}
        /\ ~(handles[h].write_count > 0 /\ handles[h].read_count > 0)
        /\ Cardinality(LiveRefs(h, TRUE)) <= 1
        /\ ~(LiveRefs(h, TRUE) # {} /\ LiveRefs(h, FALSE) # {})

\* C9 witness: an exclusive reference has just been granted and is outstanding
\* alone on its tracker
C9_Witness ==
    /\ last.op = "get_component_raw_mut" /\ last.result = "Some"
    /\ handles[last.handle].write_count = 1
    /\ handles[last.handle].read_count = 0
    /\ LiveRefs(last.handle, TRUE) # {}

\* C10 (the claim as stated): an exclusive acquisition made while a shared raw
\* reference taken through the same handle is alive fails and returns: no
\* exclusive reference is granted, the tracker and the live references are as
\* before, and the caller goes on (to release the shared reference and retry)
C10_ExclusiveWhileSharedFails ==
    ( /\ last.op = "get_component_raw_mut"
      /\ last.before.handles[last.handle].read_count > 0 )
    => /\ last.result # "Some"
       /\ handles = last.before.handles
       /\ refs = last.before.refs
       /\ status = "running"

\* the raw acquisitions and the callback-mediated accessors
RawOps == {"get_component_raw", "get_component_raw_mut"}
CallbackOps == {"with_component", "with_component_mut", "ComponentRef_with", "ComponentRefMut_with"}

\* the entity of the raw reference r taken through one of the handles hs; a
\* WorldRef is a reference to no entity
RefEntity(hs, r) == IF r.handle = NoHandle THEN NoEntity ELSE hs[r.handle].id

\* some raw reference (not a WorldRef) is among the references rs
RawRefAlive(rs) == \E i \in 1 .. Len(rs) : rs[i].handle # NoHandle

\* the raw references of kind is_write that were alive, on entity e and type t,
\* when operation op started
LiveOn(op, e, t, is_write) ==
    {i \in 1 .. Len(op.before.refs) :
        /\ RefEntity(op.before.handles, op.before.refs[i]) = e
        /\ op.before.refs[i].type = t
        /\ op.before.refs[i].is_write = is_write}

\* op is a raw acquisition that conflicts with a reference alive on its entity
\* and type: exclusive against anything, shared against exclusive
LiveConflict(op) ==
    /\ op.op \in RawOps
    /\ \/ LiveOn(op, op.entity, op.type, TRUE) # {}
       \/ op.op = "get_component_raw_mut" /\ LiveOn(op, op.entity, op.type, FALSE) # {}

\* the call returned to its caller with a failure result and the program goes on
FailedAndReturned ==
    /\ last.result = "None"
    /\ status = "running"
    /\ refs = last.before.refs

\* C11 (the claim as stated): a second exclusive acquisition made while an
\* exclusive raw reference on the same entity and type is alive fails, and no
\* callback-mediated accessor ever ends in an access conflict
C11_SecondExclusiveFails ==
    /\ ( /\ last.op = "get_component_raw_mut"
         /\ LiveOn(last, last.entity, last.type, TRUE) # {} )
       => FailedAndReturned
    /\ (last.op \in CallbackOps) => last.result # "panic"

\* C12 (the claim as stated): a raw acquisition that conflicts with a live
\* reference returns None to its caller, who goes on; the program is not aborted
C12_ConflictReturnsNone ==
    LiveConflict(last) => FailedAndReturned

\* C13 (the claim as stated): a shared acquisition made while an exclusive raw
\* reference on the same entity and type is alive returns at once with a
\* failure: it is neither granted nor blocked
C13_SharedFailsAtOnce ==
    ( /\ last.op = "get_component_raw"
      /\ LiveOn(last, last.entity, last.type, TRUE) # {} )
    => /\ last.result # "blocked"
       /\ FailedAndReturned

\* the number of live raw references of kind is_write, through any handle
LiveCount(is_write) == Cardinality({i \in 1 .. Len(refs) : refs[i].is_write = is_write})

\* C14: acquisition and release are symmetric. In every state whose last call
\* has returned or panicked, each tracker counts exactly the live references
\* taken through it and the World lock exactly the live lock guards; an
\* acquisition that returned None early left tracker, lock and references as
\* they were; and from the Free state (no live reference) an acquisition of a
\* component the entity holds is granted
C14_AcquireReleaseSymmetric ==
    /\ (status # "deadlocked") =>
           /\ \A h \in 1 .. Len(handles) :
                  /\ handles[h].read_count = Cardinality(LiveRefs(h, FALSE))
                  /\ handles[h].write_count = Cardinality(LiveRefs(h, TRUE))
           /\ world_lock.readers = LiveCount(FALSE)
           /\ world_lock.writer = (LiveCount(TRUE) > 0)
    /\ (last.op \in RawOps /\ last.result = "None") =>
           /\ handles = last.before.handles
           /\ world_lock = last.before.world_lock
           /\ refs = last.before.refs
    /\ ( /\ last.op \in RawOps
         /\ last.before.refs = <<>>
         /\ has_component(last.before.world, last.entity, last.type) )
       => last.result = "Some"

\* C14 witness: an acquisition of a component the entity does not hold has
\* just returned None while a shared reference taken through the same handle is
\* alive, and the tracker still counts that one reference
C14_Witness ==
    /\ last.op \in RawOps /\ last.result = "None"
    /\ last.before.handles[last.handle].read_count = 1
    /\ handles[last.handle].read_count = 1
    /\ Len(refs) = 1

\* C17 (the claim as stated): a raw acquisition made while raw references are
\* alive, none of them on its own entity and type, is not a conflict and does
\* not block: it is granted when the entity holds the component and returns
\* None when it does not
C17_GuardPerEntityAndType ==
    ( /\ last.op \in RawOps
      /\ RawRefAlive(last.before.refs)
      /\ LiveOn(last, last.entity, last.type, TRUE) = {}
      /\ LiveOn(last, last.entity, last.type, FALSE) = {} )
    => /\ status = "running"
       /\ last.result = IF has_component(last.before.world, last.entity, last.type)
                        THEN "Some" ELSE "None"

\* C15 (the claim as stated): a callback-mediated accessor called by a thread
\* that holds no raw reference returns, whatever its callback does with the
\* Scene
C15_CallbackAccessorsReturn ==
    (last.op \in CallbackOps /\ last.before.refs = <<>>) =>
        /\ last.result \in {"Some", "None"}
        /\ status = "running"

\* C16 (the claim as stated): an operation of a handle or of the Scene that is
\* invoked while a raw reference is alive on the calling thread completes or
\* fails; it does not block forever
C16_NeverBlocksForever ==
    (RawRefAlive(last.before.refs)) =>
        /\ last.result # "blocked"
        /\ status # "deadlocked"

\* C18: while a destroy of e is queued, no operation
\* other than apply_commands takes a component from e; after an apply_commands
\* whose last queued create or destroy of e is a destroy, with no component
\* written to e after it, e holds no component of any type
C18_DeferredDestroy ==
    \A e \in EntityIds :
        /\ ( /\ InSeq(commands, CmdDestroyEntity(e))
             /\ last.op # "apply_commands" )
           => \A t \in Types :
                  has_component(last.before.world, e, t) => has_component(TheWorld, e, t)
        /\ LET next == last.before.world.next_entity_id
               m == LastRegistryTouch(last.applied, e, next)
           IN ( /\ last.op = "apply_commands" /\ last.result = "ok"
                /\ m > 0
                /\ last.applied[m].kind = "DestroyEntity"
                /\ \A t \in Types : LastTouch(last.applied, e, t, next) <= m )
              => \A t \in Types : ~has_component(TheWorld, e, t)

\* C18 witness: apply_commands has just drained the deferred destroy of a
\* registered entity that held a component until then; the entity holds none
C18_Witness ==
    /\ last.op = "apply_commands" /\ last.result = "ok"
    /\ \E e \in EntityIds :
           /\ InSeq(last.applied, CmdDestroyEntity(e))
           /\ InSeq(last.before.world.entities, e)
           /\ \E t \in Types : has_component(last.before.world, e, t)
           /\ \A t \in Types : ~has_component(TheWorld, e, t)
           /\ ~InSeq(entities, e)

\* the registry holds no id twice
NoDuplicates(s) == \A i, j \in 1 .. Len(s) : s[i] = s[j] => i = j

\* C19: the id counter never goes back, a creation returns the counter's value
\* and advances it by one (so the id is above every id handed out before, also
\* after a destroy), the returned id is new in the registry, and the registry
\* holds only ids below the counter, each once
C19_IdsMonotonic ==
    /\ last.before.world.next_entity_id <= next_entity_id
    /\ (last.op \in {"instantiate", "create_entity"} /\ last.result = "ok") =>
           /\ last.entity = last.before.world.next_entity_id
           /\ next_entity_id = last.entity + 1
           /\ InSeq(entities, last.entity)
           /\ ~InSeq(last.before.world.entities, last.entity)
           /\ \A i \in 1 .. Len(last.before.world.entities) :
                  last.before.world.entities[i] < last.entity
    /\ \A i \in 1 .. Len(entities) : entities[i] < next_entity_id
    /\ NoDuplicates(entities)

\* C19 witness: an entity has just been created after the first one was
\* destroyed; it got the id 1, not the freed id 0
C19_Witness ==
    /\ last.op = "instantiate" /\ last.result = "ok"
    /\ last.before.world.entities = <<>>
    /\ last.before.world.next_entity_id = 1
    /\ entities = <<1>>

\* the A of entity 0 after the first k systems of syss have run in order,
\* starting from a0: the last SetA among them gives 1, every IncA after it
\* adds one
AAfter(syss, k, a0) ==
    LET s == MaxIndex({i \in 1 .. k : syss[i] = "SetA"})
        base == IF s > 0 THEN Some(1) ELSE a0
        incs == Cardinality({i \in (s + 1) .. k : syss[i] = "IncA"})
    IN IF base = None THEN None ELSE Some(base[1] + incs)

\* C20: one call of SystemExecutor::execute runs the registered systems, each
\* once, in registration order, and each system works on the World the earlier
\* ones left: A of entity 0 is what SetA and the IncA after it make of it, and
\* B is the A that the last CopyAB found
C20_SystemsInRegistrationOrder ==
    (last.op = "execute_systems") =>
        LET old == last.before.world
            a0 == get_component(old, 0, "A")
            k == MaxIndex({i \in 1 .. Len(systems) : systems[i] = "CopyAB"})
        IN /\ last.applied = systems
           /\ get_component(TheWorld, 0, "A") = AAfter(systems, Len(systems), a0)
           /\ get_component(TheWorld, 0, "B") =
                  IF k = 0 \/ AAfter(systems, k - 1, a0) = None
                  THEN get_component(old, 0, "B")
                  ELSE AAfter(systems, k - 1, a0)

\* C20 witness: SetA, IncA, CopyAB were registered in that order and have just
\* run: B is 2, the A that SetA and then IncA produced
C20_Witness ==
    /\ last.op = "execute_systems"
    /\ systems = <<"SetA", "IncA", "CopyAB">>
    /\ last.applied = systems
    /\ get_component(TheWorld, 0, "A") = Some(2)
    /\ get_component(TheWorld, 0, "B") = Some(2)

\* C21 (the claim as stated): an add_component of a T on an entity that
\* already holds a T keeps both instances in insertion order, and
\* get_component still returns the first
C21_AddNeverOverwrites ==
    ( /\ last.op = "add_component" /\ last.result = "ok"
      /\ has_component(last.before.world, last.entity, last.type) )
    => /\ Instances(TheWorld, last.entity, last.type) =
              Instances(last.before.world, last.entity, last.type) \o <<last.value[1]>>
       /\ get_component(TheWorld, last.entity, last.type) =
              get_component(last.before.world, last.entity, last.type)

\* the lookups on the World
LookupOps == {"get_component", "get_component_mut"}

\* C22: a get_component or get_component_mut for a slot that holds nothing,
\* because the type has no Storage or the Storage has no entry for the entity,
\* returns None in both cases, raises nothing and leaves the World, Storage
\* set included, as it was; for a slot that holds a component it returns it
C22_LookupAbsentIsNone ==
    (last.op \in LookupOps) =>
        /\ status = "running"
        /\ TheWorld = last.before.world
        /\ ~has_component(last.before.world, last.entity, last.type) =>
               last.value = None /\ last.result = "None"
        /\ has_component(last.before.world, last.entity, last.type) =>
               /\ last.result = "Some"
               /\ last.value = get_component(last.before.world, last.entity, last.type)

\* C22 witness: get_component_mut has just returned None for a type that has no
\* Storage, in a World that has a Storage of another type, and no Storage was
\* created
C22_Witness ==
    /\ last.op = "get_component_mut" /\ last.result = "None"
    /\ last.type \notin DOMAIN components
    /\ \E t \in Types : t \in DOMAIN components /\ DOMAIN components[t] # {}

\* the handle's accessors that hand out a ComponentRef / ComponentRefMut
HandleGetOps == {"Entity_get_component", "Entity_get_component_mut"}

\* C23 (the claim as stated): the option returned by the handle's
\* get_component / get_component_mut is None exactly when the entity holds no
\* component of the type
C23_HandleGetTellsAbsence ==
    (last.op \in HandleGetOps) =>
        ((last.result = "None") <=> ~has_component(TheWorld, last.entity, last.type))

\* C24: a remove_component of a slot that holds nothing leaves every Storage,
\* the registry and the id counter as they were and raises nothing, and so does
\* an apply_commands whose commands are all removes of slots that hold nothing
C24_RemoveAbsentIsNoOp ==
    /\ ( /\ last.op = "remove_component" /\ last.result = "ok"
         /\ ~has_component(last.before.world, last.entity, last.type) )
       => TheWorld = last.before.world /\ status = "running"
    /\ ( /\ last.op = "apply_commands" /\ last.result = "ok"
         /\ \A i \in 1 .. Len(last.applied) :
                /\ last.applied[i].kind = "RemoveComponent"
                /\ ~has_component(last.before.world, last.applied[i].entity, last.applied[i].type) )
       => TheWorld = last.before.world /\ status = "running"

\* C24 witness: apply_commands has just drained two removes, one for a type
\* that has no Storage and one for an entity missing from an existing Storage
C24_Witness ==
    /\ last.op = "apply_commands" /\ last.result = "ok"
    /\ Len(last.applied) = 2
    /\ \A i \in 1 .. 2 :
           /\ last.applied[i].kind = "RemoveComponent"
           /\ ~has_component(last.before.world, last.applied[i].entity, last.applied[i].type)
    /\ \E i \in 1 .. 2 : last.applied[i].type \notin DOMAIN components
    /\ \E i \in 1 .. 2 : /\ last.applied[i].type \in DOMAIN components
                         /\ DOMAIN components[last.applied[i].type] # {}

\* C25: a query over a type that has no Storage returns the empty result, and
\* so does a query2 when either of its types has no Storage, whatever the other
\* Storage holds; the World is left as it was and nothing is raised
C25_QueryUnregisteredIsEmpty ==
    /\ (last.op = "query" /\ last.type \notin DOMAIN last.before.world.components) =>
           last.value = <<>> /\ TheWorld = last.before.world /\ status = "running"
    /\ ( /\ last.op = "query2"
         /\ \E i \in 1 .. 2 : last.type[i] \notin DOMAIN last.before.world.components )
       => last.value = <<>> /\ TheWorld = last.before.world /\ status = "running"

\* C25 witness: query2 has just returned the empty result for a first type
\* held by an entity and a second type that was never added
C25_Witness ==
    /\ last.op = "query2"
    /\ last.value = <<>>
    /\ last.type[1] \in DOMAIN components
    /\ DOMAIN components[last.type[1]] # {}
    /\ last.type[2] \notin DOMAIN components

\* C27 (the claim as stated): every entity that has an entry in a Storage is
\* in the live-entity registry
C27_StoredEntitiesAreLive ==
    \A sl \in Slots : has_component(TheWorld, sl[1], sl[2]) => InSeq(entities, sl[1])

\* C26: a has_component that has returned left the World, the Command Buffer,
\* the tracker counters, the live references and the World lock as they were,
\* and its result is true exactly when get_component on the same entity and
\* type yields a component
C26_HasComponentIsPure ==
    (last.op = "has_component" /\ last.result # "blocked") =>
        /\ TheWorld = last.before.world
        /\ commands = last.before.commands
        /\ handles = last.before.handles
        /\ refs = last.before.refs
        /\ world_lock = last.before.world_lock
        /\ status = "running"
        /\ (last.result = "true") <=> (get_component(TheWorld, last.entity, last.type) # None)

\* C26 witness: has_component has just returned true while a shared raw
\* reference is alive; the lock still has that one reader and the tracker that
\* one read borrow
C26_Witness ==
    /\ last.op = "has_component" /\ last.result = "true"
    /\ Len(refs) = 1 /\ ~refs[1].is_write
    /\ refs[1].handle # NoHandle
    /\ world_lock.readers = 1
    /\ handles[refs[1].handle].read_count = 1

\* C28 (the claim as stated): an exclusive acquisition through one handle,
\* made while a raw reference taken through another handle to the same entity
\* is alive, returns at once with a failure
C28_TrackingFollowsEntity ==
    ( /\ last.op = "get_component_raw_mut"
      /\ \E i \in 1 .. Len(last.before.refs) :
             /\ last.before.refs[i].handle # last.handle
             /\ RefEntity(last.before.handles, last.before.refs[i]) = last.entity )
    => /\ last.result = "None"
       /\ status = "running"
       /\ handles = last.before.handles

\* ------------------------------------------------- concurrency claims
Holding(mode) == {t \in ThreadIds : threads[t].hold = mode}

\* C29: under any interleaving of threads on one Scene the World is accessed by
\* many readers or by one writer: at most one thread holds the write guard and
\* then no thread holds a read guard; the World changes only in a step taken
\* while the lock was held exclusively; and for as long as a thread holds a guard
\* (a call in progress or a live raw reference) the World, and so the referenced
\* component, is what it was when the guard was taken.
C29_ThreadsReadersXorWriter ==
    /\ Cardinality(Holding("write")) <= 1
    /\ Holding("write") # {} => Holding("read") = {}
    /\ world_lock.writer = (Holding("write") # {})
    /\ world_lock.readers = Cardinality(Holding("read"))
    /\ TheWorld # last.before.world =>
           last.before.world_lock.writer /\ last.before.world_lock.readers = 0
    /\ \A t \in ThreadIds : threads[t].hold # "none" => threads[t].seen = Some(TheWorld)
    /\ \A i \in 1 .. Len(refs) :
           get_component(TheWorld, RefEntity(handles, refs[i]), refs[i].type) # None

\* a thread holds a shared raw reference while another thread, inside a call
\* that removes or destroys, waits for the World lock
C29_Witness ==
    \E t, u \in ThreadIds :
        /\ t # u
        /\ threads[t].op = "get_component_raw" /\ threads[t].hold = "read"
        /\ threads[u].pc = "called"
        /\ threads[u].op \in {"remove_component", "destroy"}
        /\ last.op = "call" /\ last.handle = u

\* C30: every command enqueued is applied exactly once, under any interleaving of
\* enqueues and apply_commands: the commands enqueued so far are, in order, the
\* commands applied so far followed by the commands still in the buffer; an
\* apply_commands applies the whole buffer and leaves it empty; and every command
\* whose enqueue completed before the apply_commands was called has been applied
\* when it returns.
C30_EveryCommandAppliedOnce ==
    /\ journal.enqueued = journal.applied \o commands
    /\ (last.op = "apply_commands" /\ last.handle \in ThreadIds) =>
           /\ commands = <<>>
           /\ last.applied = last.before.commands
           /\ Len(journal.applied) >= last.value[1]

\* a second apply_commands returns with commands applied while another thread's
\* enqueue, called while it ran, waits for the buffer
C30_Witness ==
    /\ last.op = "apply_commands" /\ last.handle \in ThreadIds
    /\ last.applied # <<>>
    /\ Len(journal.applied) > Len(last.applied)
    /\ \E u \in ThreadIds : threads[u].pc = "called" /\ threads[u].op \in ThreadEnqueueOps

\* the commands of s whose owner in the parallel sequence by is t, in order
RECURSIVE OwnedBy(_, _, _)
OwnedBy(s, by, t) ==
    IF s = <<>> THEN <<>>
    ELSE (IF Head(by) = t THEN <<Head(s)>> ELSE <<>>) \o OwnedBy(Tail(s), Tail(by), t)

IsPrefix(p, s) == Len(p) <= Len(s) /\ SubSeq(s, 1, Len(p)) = p

\* C31: the commands enqueued by one thread are applied in the order that thread
\* enqueued them, whatever the interleaving: for every thread, its commands among
\* those applied so far, and its commands among applied-then-still-queued, are
\* prefixes of the sequence of deferred calls the thread made, in program order;
\* only the command of a call still in progress may be missing.
C31_PerThreadFifo ==
    \A t \in ThreadIds :
        LET mine == journal.issued[t]
            through == OwnedBy(journal.applied \o commands, journal.owner, t)
            done == OwnedBy(journal.applied,
                            SubSeq(journal.owner, 1, Len(journal.applied)), t)
        IN /\ Len(journal.owner) = Len(journal.applied) + Len(commands)
           /\ IsPrefix(done, mine)
           /\ IsPrefix(through, mine)
           /\ Len(mine) - Len(through) = Cardinality(InCall(ThreadEnqueueOps) \cap {t})

\* an apply_commands has applied two different commands of one thread that
\* another thread's command was enqueued between
C31_Witness ==
    /\ last.op = "apply_commands" /\ last.handle \in ThreadIds
    /\ Len(last.applied) = MaxJournal
    /\ \E t, u \in ThreadIds :
          /\ t # u
          /\ journal.owner = <<t, u, t>>
          /\ journal.issued[t][1] # journal.issued[t][2]

\* C32: no deadlock between apply_commands and the immediate and deferred
\* operations of other threads (none holding a raw reference): every call a
\* thread is in eventually returns.
C32_EveryCallReturns ==
    \A t \in ThreadIds : (threads[t].pc # "idle") ~> (threads[t].pc = "idle")

\* apply_commands holds the Command Buffer lock and waits for the World lock,
\* which another thread holds inside an immediate operation
C32_Witness ==
    \E t, u \in ThreadIds :
        /\ t # u
        /\ threads[t].op = "apply_commands" /\ threads[t].pc = "locked_buffer"
        /\ threads[u].pc = "locked_world" /\ threads[u].hold = "write"
        /\ ~ENABLED Thread_apply_lock_world(t)

\* number of places of the sequence s that hold x
Occurrences(s, x) == Cardinality({i \in 1 .. Len(s) : s[i] = x})

\* the handles Entity::new has returned so far (the first MaxThreads handles are
\* the threads' own)
Returned == {i \in 1 .. Len(handles) : i > MaxThreads}

\* C33: concurrent instantiate calls return pairwise distinct ids, and each
\* returned id is in the registry exactly once when its call returns: the ids of
\* the returned handles and the ids allocated by calls still in progress are all
\* different, and in the state in which Entity::new returns id, the registry
\* holds id once.
C33_ConcurrentInstantiate ==
    /\ \A i, j \in Returned : handles[i].id = handles[j].id => i = j
    /\ \A t \in ThreadIds :
          threads[t].op = "register_entity" =>
              /\ \A i \in Returned : handles[i].id # threads[t].value[1]
              /\ \A u \in ThreadIds \ {t} :
                    threads[u].op = "register_entity" =>
                        threads[u].value[1] # threads[t].value[1]
    /\ last.op = "Entity_new" => Occurrences(entities, last.entity) = 1

\* the second of two overlapping Entity::new calls returns: it allocated its id
\* before the other call registered its own
C33_Witness ==
    /\ last.op = "Entity_new"
    /\ Cardinality(Returned) = MaxEntities
    /\ entities = <<last.entity + 1, last.entity>>

\* C34: while shared raw references on an entity are alive and no exclusive one
\* is, a further get_component_raw through the same handle on a component the
\* entity holds succeeds and does not block, also when another thread is waiting
\* for exclusive access to the World.
C34_SharedAgainWhileWriterWaits ==
    (/\ last.op = "get_component_raw"
     /\ last.before.refs # <<>>
     /\ \A i \in 1 .. Len(last.before.refs) :
           /\ last.before.refs[i].handle = last.handle
           /\ ~last.before.refs[i].is_write
     /\ get_component(last.before.world, last.entity, last.type) # None)
    => last.result = "Some"

\* ------------------------------------------------------- timing claims
\* C35: a deferred operation acts on the World of apply time, not of enqueue
\* time.  After apply_commands: a deferred remove of T on e that was enqueued
\* while e had no T, and is the last queued write of that slot, leaves e without
\* the T that e holds when apply_commands starts; a deferred add of T on e that
\* was enqueued while e was live, and is the last queued write of that slot, has
\* given e its value although e was destroyed before apply_commands started.
C35_EffectAtApplyTime ==
    (last.op = "apply_commands" /\ last.handle = NoHandle) =>
        \A i \in 1 .. Len(last.applied) :
            LET c == last.applied[i]
                at == last.before.at_enqueue[i]
                w0 == last.before.world
                lastWrite == LastTouch(last.applied, c.entity, c.type, w0.next_entity_id) = i
                liveAtApply == InSeq(w0.entities, c.entity)
            IN /\ (/\ c.kind = "RemoveComponent" /\ lastWrite
                   /\ ~at.present /\ has_component(w0, c.entity, c.type))
                  => ~has_component(TheWorld, c.entity, c.type)
               /\ (/\ c.kind = "AddComponent" /\ lastWrite
                   /\ at.live /\ ~liveAtApply)
                  => get_component(TheWorld, c.entity, c.type) = c.value

\* one apply_commands shows both cases: a remove enqueued before the component
\* was added has removed it, and an add enqueued before the entity was destroyed
\* has reached the destroyed entity
C35_Witness ==
    /\ last.op = "apply_commands" /\ last.handle = NoHandle
    /\ \E i, j \in 1 .. Len(last.applied) :
          LET r == last.applied[i]
              a == last.applied[j]
              w0 == last.before.world
          IN /\ r.kind = "RemoveComponent"
             /\ ~last.before.at_enqueue[i].present
             /\ has_component(w0, r.entity, r.type)
             /\ ~has_component(TheWorld, r.entity, r.type)
             /\ a.kind = "AddComponent"
             /\ last.before.at_enqueue[j].live
             /\ ~InSeq(w0.entities, a.entity)
             /\ ~has_component(w0, a.entity, a.type)
             /\ get_component(TheWorld, a.entity, a.type) = a.value

\* ------------------------------------------------- frame effect claims
\* the types entity e holds in World w
Held(w, e) == {t \in Types : has_component(w, e, t)}

\* C36: the mutable two-component pass of MovementSystem::execute visits exactly
\* the entities that hold both types, each once; it adds velocity * dt to the
\* first component of those entities and leaves unchanged their second
\* component, every entity lacking either type, the registry, the id counter and
\* the set of types each entity holds.
C36_MovementPass ==
    last.op = "MovementSystem_execute" =>
        LET w0 == last.before.world
            both == HoldBoth(w0, "A", "B")
            dt == last.value[1]
        IN /\ {last.applied[i] : i \in 1 .. Len(last.applied)} = both
           /\ NoDuplicates(last.applied)
           /\ \A e \in both :
                 /\ get_component(TheWorld, e, "A")
                       = Some(get_component(w0, e, "A")[1] + get_component(w0, e, "B")[1] * dt)
                 /\ get_component(TheWorld, e, "B") = get_component(w0, e, "B")
           /\ \A e \in EntityIds \ both :
                 \A t \in Types : get_component(TheWorld, e, t) = get_component(w0, e, t)
           /\ \A e \in EntityIds : Held(TheWorld, e) = Held(w0, e)
           /\ entities = w0.entities
           /\ next_entity_id = w0.next_entity_id
           /\ DOMAIN components = DOMAIN w0.components

\* a pass over a World in which one entity holds both types and another holds
\* only a Transform
C36_Witness ==
    /\ last.op = "MovementSystem_execute"
    /\ Len(last.applied) = 1
    /\ \E e \in EntityIds \ HoldBoth(last.before.world, "A", "B") :
          Held(last.before.world, e) = {"A"}
    /\ TheWorld # last.before.world

\* ------------------------------------------------- termination claims
\* C37: apply_commands terminates for every finite buffer and every command
\* handler, also a CreateEntity setup that itself uses the Scene: it returns
\* having applied each command that was in the buffer once, with the buffer
\* empty and the World lock released.
C37_ApplyCommandsTerminates ==
    (last.op = "apply_commands" /\ last.handle = NoHandle /\ last.before.refs = <<>>) =>
        /\ last.result = "ok"
        /\ status = "running"
        /\ last.applied = last.before.commands
        /\ commands = <<>>
        /\ world_lock = LockNew

\* the updates of the pass that asked for a position of e, by their place in the
\* record of the pass
Asked(ran, e) == {i \in 1 .. Len(ran) : ran[i].entity = e /\ ran[i].asked # None}

\* C38: during update_scripts every script observes the values the World had
\* when the call started; the positions asked for are written only after all
\* scripts ran and only to entities that hold a Position: an entity with a
\* Position for which scripts asked gets the position asked for last (not the
\* sum of the moves), every other Position, every Velocity, the registry and the
\* component sets are as before.
C38_ScriptsSeeStartAndLastRequestWins ==
    last.op = "update_scripts" =>
        LET w0 == last.before.world
            ran == last.applied
        IN /\ \A i \in 1 .. Len(ran) : ran[i].saw = get_component(w0, ran[i].entity, "A")
           /\ \A e \in EntityIds :
                 /\ get_component(TheWorld, e, "B") = get_component(w0, e, "B")
                 /\ has_component(TheWorld, e, "A") = has_component(w0, e, "A")
                 /\ has_component(w0, e, "A") =>
                       get_component(TheWorld, e, "A")
                           = IF Asked(ran, e) = {} THEN get_component(w0, e, "A")
                             ELSE ran[MaxIndex(Asked(ran, e))].asked
           /\ entities = w0.entities
           /\ next_entity_id = w0.next_entity_id

\* two scripts moved the same entity in one call and a script set a position for
\* an entity without a Position: the first entity moved once, the second has no
\* Position
C38_Witness ==
    /\ last.op = "update_scripts"
    /\ \E e \in EntityIds :
          /\ Cardinality(Asked(last.applied, e)) > 1
          /\ \A i \in Asked(last.applied, e) : last.applied[i].script # "SetterScript"
          /\ get_component(TheWorld, e, "A") # get_component(last.before.world, e, "A")
    /\ \E e \in EntityIds :
          /\ Asked(last.applied, e) # {}
          /\ ~has_component(TheWorld, e, "A")

\* the BorrowGuard of an acquisition through handle h that took its borrow and
\* then waits for the World lock for ever: created, never dropped
GuardInFlight(h, is_write) ==
    IF /\ status = "deadlocked"
       /\ last.result = "blocked"
       /\ last.handle = h
       /\ last.op = (IF is_write THEN "get_component_raw_mut" ELSE "get_component_raw")
    THEN 1 ELSE 0

\* the live BorrowGuards created from the tracker of handle h
LiveGuards(h, is_write) == Cardinality(LiveRefs(h, is_write)) + GuardInFlight(h, is_write)

\* C39: in every reachable state, blocked and panicked ones included, each
\* tracker's read_count is the number of live shared BorrowGuards created from
\* it and its write_count the number of live exclusive ones; read_count is
\* never negative; a drop takes one off the counters of its own tracker and
\* leaves every other tracker alone; an acquisition that panicked left every
\* counter and every guard as it was
C39_CountersAreLiveGuards ==
    /\ \A h \in 1 .. Len(handles) :
           /\ handles[h].read_count = LiveGuards(h, FALSE)
           /\ handles[h].write_count = LiveGuards(h, TRUE)
           /\ handles[h].read_count >= 0
    /\ (last.op = "drop") =>
           /\ handles[last.handle].read_count + handles[last.handle].write_count
                  = last.before.handles[last.handle].read_count
                    + last.before.handles[last.handle].write_count - 1
           /\ \A h \in 1 .. Len(handles) :
                  h # last.handle => handles[h] = last.before.handles[h]
    /\ (last.op \in RawOps /\ last.result = "panic") =>
           /\ handles = last.before.handles
           /\ refs = last.before.refs

\* C39 witness: one of two shared references taken through the same handle has
\* just been dropped; the tracker counted two and now counts the one left
C39_Witness ==
    /\ last.op = "drop"
    /\ last.before.handles[last.handle].read_count = 2
    /\ handles[last.handle].read_count = 1
    /\ Cardinality(LiveRefs(last.handle, FALSE)) = 1

====
